---- MODULE Spec2Model ----
(***************************************************************************)
(* Model of the validation core of mysql-data-quality:                     *)
(*   src/src/data_quality/validators/base.py        (Rule, Result, Engine) *)
(*   src/src/data_quality/validators/integrity.py   (IntegrityValidator)   *)
(*   src/src/data_quality/validators/duplicates.py  (DuplicatesValidator)  *)
(*   src/src/data_quality/validators/completeness.py                       *)
(*   src/src/data_quality/validators/patterns.py                           *)
(*                                                                         *)
(* Python values are represented as follows.                               *)
(*   - str            a TLA+ string; Optional[str] uses the sentinel None  *)
(*   - a DataFrame    [columns |-> <<names>>, rows |-> <<row, ...>>] with  *)
(*                    every row a tuple of cells aligned with columns      *)
(*   - a cell         a string; NaN/None cells are the sentinel NULL       *)
(*   - a dict         a record (a function on its keys)                    *)
(*   - str-or-list    a tagged record, see PyStr, PyList, PyNone           *)
(*   - a call         an outcome [raised, error, results]: either the list *)
(*                    it returned or the Exception it raised               *)
(* ValidationResult.timestamp (datetime.now()) is not modelled.            *)
(***************************************************************************)
EXTENDS Integers, Sequences, FiniteSets, TLC

VARIABLES
    engine,        \* ValidationEngine._validators: dict in insertion order
    registered,    \* history: the validators passed to register_validator
    validator,     \* the validator object a validator-level call is made on
    data,          \* the DataFrame passed to the call
    table_name,    \* the table name passed to the call
    rules_arg,     \* the rules argument of a validator-level call
    args,          \* the last call: operation and remaining arguments
    ran,           \* history: validators whose validate_table the engine called
    outcome,       \* what the last call returned or raised
    orchestrator   \* the DataQualityOrchestrator: its database and its connector

vars == <<engine, registered, validator, data, table_name, rules_arg, args, ran, outcome, orchestrator>>

----------------------------------------------------------------------------
(* Bounds of the model.                                                    *)

MaxRegistrations == 3
MaxNames == 3
MaxRows == 2
MaxRefRows == 1
MaxRules == 2
MaxKeyRows == 3

----------------------------------------------------------------------------
(* Python values.                                                          *)

None == "<None>"
NULL == "<NULL>"

PyNone == [t |-> "none"]
PyStr(s) == [t |-> "str", s |-> s]
PyList(l) == [t |-> "list", l |-> l]

\* Python truthiness of a str-or-list-or-None value.
Truthy(x) ==
    CASE x.t = "none" -> FALSE
      [] x.t = "str"  -> x.s # ""
      [] x.t = "list" -> x.l # <<>>

\* dict.get(key, default)
Get(d, k, default) == IF k \in DOMAIN d THEN d[k] ELSE default

EmptyDict == [k \in {} |-> 0]

Range(s) == {s[i] : i \in 1..Len(s)}

RECURSIVE Flatten(_)
Flatten(ss) == IF ss = <<>> THEN <<>> ELSE Head(ss) \o Flatten(Tail(ss))

\* The outcome of a call: a returned list, or a raised Exception.
Return(rs) == [raised |-> FALSE, error |-> "", results |-> rs]
Raise(msg) == [raised |-> TRUE, error |-> msg, results |-> <<>>]

NoCall == [op |-> "none"]

Smaller(a, b) == IF a < b THEN a ELSE b

----------------------------------------------------------------------------
(* base.py: ValidationSeverity, ValidationResult, ValidationRule.          *)

ValidationSeverity == {"INFO", "WARNING", "ERROR", "CRITICAL"}

ValidationResult(rule_name, tname, column_name, severity, passed, message, details, affected_rows, total_rows) ==
    [rule_name |-> rule_name, table_name |-> tname, column_name |-> column_name,
     severity |-> severity, passed |-> passed, message |-> message,
     details |-> details, affected_rows |-> affected_rows,
     total_rows |-> total_rows]

PassRateWithoutZeroTest(r) ==
    [num |-> (r.total_rows - r.affected_rows) * 100, den |-> r.total_rows]

\* ValidationResult.pass_rate, a percentage, as the exact fraction num/den
pass_rate(r) ==
    IF r.total_rows = 0 THEN [num |-> 100, den |-> 1]
    ELSE [num |-> (r.total_rows - r.affected_rows) * 100, den |-> r.total_rows]

\* ValidationRule(name, description, severity, enabled, parameters);
\* __post_init__ turns parameters=None into the empty dict.
ValidationRule(name, severity, enabled, parameters) ==
    [name |-> name, severity |-> severity, enabled |-> enabled,
     parameters |-> parameters]

CreateResultEscalates(rule, tname, column_name, passed, message, details, affected_rows, total_rows) ==
    ValidationResult(rule.name, tname, column_name, IF passed THEN rule.severity ELSE "CRITICAL",
                     passed, message, details, affected_rows, total_rows)

\* DataQualityValidator._create_result
create_result(rule, tname, column_name, passed, message, details, affected_rows, total_rows) ==
    ValidationResult(rule.name, tname, column_name, rule.severity, passed,
                     message, details, affected_rows, total_rows)

\* DataQualityValidator.add_rule
add_rule(self, rule) == [self EXCEPT !.rules = Append(@, rule)]

GetRulesReturnsOwnList(self) == [items |-> self.rules, own |-> TRUE]

\* DataQualityValidator.get_rules: self._rules.copy().  A list object is its
\* items and whether it is the validator's own list object.
get_rules(self) == [items |-> self.rules, own |-> FALSE]

----------------------------------------------------------------------------
(* pandas: the DataFrame operations the validators use.                    *)

DataFrame(columns, rows) == [columns |-> columns, rows |-> rows]

\* pd.isna(cell)
IsNa(cell) == cell = NULL

\* col in df.columns
HasColumn(df, c) == c \in Range(df.columns)

ColIndex(df, c) == CHOOSE i \in 1..Len(df.columns) : df.columns[i] = c

\* df[[c1, ..., cn]]: the projection on a list of existing columns
Project(df, cols) ==
    DataFrame(cols, [r \in 1..Len(df.rows) |->
                       [k \in 1..Len(cols) |-> df.rows[r][ColIndex(df, cols[k])]]])

\* df[c]: a column as a Series
Series(df, c) == [r \in 1..Len(df.rows) |-> df.rows[r][ColIndex(df, c)]]

RECURSIVE Distinct(_)
\* the elements of a sequence, each once, in order of first occurrence
Distinct(s) ==
    IF s = <<>> THEN <<>>
    ELSE LET front == Distinct(SubSeq(s, 1, Len(s) - 1))
         IN IF s[Len(s)] \in Range(front) THEN front ELSE Append(front, s[Len(s)])

\* df.drop_duplicates(): NaN cells compare equal to each other
DropDuplicates(df) == DataFrame(df.columns, Distinct(df.rows))

\* df.dropna(): drops the rows with a NaN in any column
DropNa(df) ==
    DataFrame(df.columns,
              SelectSeq(df.rows, LAMBDA row : \A k \in 1..Len(row) : ~IsNa(row[k])))

RECURSIVE Join(_, _)
\* sep.join(strings)
Join(strs, sep) ==
    IF strs = <<>> THEN ""
    ELSE IF Len(strs) = 1 THEN strs[1]
    ELSE strs[1] \o sep \o Join(Tail(strs), sep)

\* str(list of str), as in an f-string
ListRepr(strs) == "[" \o Join([i \in 1..Len(strs) |-> "'" \o strs[i] \o "'"], ", ") \o "]"

----------------------------------------------------------------------------
(* A database connector as the IntegrityValidator uses it: execute_query   *)
(* answers SELECT DISTINCT <columns> FROM <table> from the tables it holds *)
(* and the INFORMATION_SCHEMA query from the constraints it holds; it      *)
(* raises when the database rejects the query.                             *)

NoConnector == [present |-> FALSE]

Connector(tables, foreign_keys, schema_fails) ==
    [present |-> TRUE, tables |-> tables, foreign_keys |-> foreign_keys,
     schema_fails |-> schema_fails]

\* connector.execute_query("SELECT DISTINCT <cols> FROM <table>")
select_distinct(connector, cols, table) ==
    IF table \notin DOMAIN connector.tables
    THEN [raised |-> TRUE, error |-> "Table '" \o table \o "' doesn't exist"]
    ELSE IF \E k \in 1..Len(cols) : ~HasColumn(connector.tables[table], cols[k])
    THEN [raised |-> TRUE, error |-> "Unknown column in 'field list'"]
    ELSE [raised |-> FALSE, error |-> "",
          frame |-> DropDuplicates(Project(connector.tables[table], cols))]

\* connector.execute_query(fk_query, {"table_name": table_name}): the rows
\* (COLUMN_NAME, REFERENCED_TABLE_NAME, REFERENCED_COLUMN_NAME, CONSTRAINT_NAME)
select_foreign_keys(connector, tname) ==
    IF connector.schema_fails
    THEN [raised |-> TRUE, error |-> "information_schema query failed"]
    ELSE [raised |-> FALSE, error |-> "",
          rows |-> IF tname \in DOMAIN connector.foreign_keys
                   THEN connector.foreign_keys[tname] ELSE <<>>]

----------------------------------------------------------------------------
(* integrity.py: IntegrityValidator.                                       *)

SampleLimit == 10

IntegrityValidator(connector, rules) ==
    [kind |-> "integrity", name |-> "integrity", rules |-> rules,
     connector |-> connector]

\* isinstance(x, str): x = [x]
AsList(x) == IF x.t = "str" THEN <<x.s>> ELSE x.l

\* IntegrityValidator._get_reference_data: the frame under "reference_data",
\* else the answer of the rule's connector, else (falling off the end of the
\* function) None.
get_reference_data(rule) ==
    LET p == rule.parameters IN
    IF "reference_data" \in DOMAIN p
    THEN [raised |-> FALSE, error |-> "", none |-> FALSE, frame |-> p.reference_data]
    ELSE IF "connector" \in DOMAIN p
    THEN LET q == select_distinct(p.connector, AsList(p.reference_column), p.reference_table)
         IN IF q.raised THEN [raised |-> TRUE, error |-> q.error, none |-> FALSE]
            ELSE [raised |-> FALSE, error |-> "", none |-> FALSE, frame |-> q.frame]
    ELSE [raised |-> FALSE, error |-> "", none |-> TRUE]

\* pd.isna(fk_value) or any(pd.isna(v) for v in fk_value)
IsNullKey(key) == \E k \in 1..Len(key) : IsNa(key[k])

RECURSIVE InvalidIgnoresAllowNulls(_, _, _, _)
InvalidIgnoresAllowNulls(fk_tuples, ref_tuples, allow_nulls, i) ==
    IF i > Len(fk_tuples) THEN <<>>
    ELSE (IF IsNullKey(fk_tuples[i]) \/ fk_tuples[i] \notin ref_tuples
          THEN <<[i |-> i - 1, value |-> fk_tuples[i], type |-> "orphaned_record"]>>
          ELSE <<>>) \o InvalidIgnoresAllowNulls(fk_tuples, ref_tuples, allow_nulls, i + 1)

RECURSIVE collect_invalid(_, _, _, _)
\* the loop over enumerate(fk_tuples) that fills invalid_references
collect_invalid(fk_tuples, ref_tuples, allow_nulls, i) ==
    IF i > Len(fk_tuples) THEN <<>>
    ELSE (IF IsNullKey(fk_tuples[i])
          THEN (IF ~allow_nulls
                THEN <<[i |-> i - 1, value |-> fk_tuples[i], type |-> "null_value"]>>
                ELSE <<>>)
          ELSE IF fk_tuples[i] \notin ref_tuples
          THEN <<[i |-> i - 1, value |-> fk_tuples[i], type |-> "orphaned_record"]>>
          ELSE <<>>) \o collect_invalid(fk_tuples, ref_tuples, allow_nulls, i + 1)

\* the reference keys without the keys of the validated table itself
RefKeysWithoutSelf(d, tname, reference_table, reference_column, allow_self_reference, ref_data) ==
    [raised |-> FALSE, error |-> "", frame |-> ref_data]

\* the "Handle self-referencing tables" step: data[reference_column] raises
\* KeyError when the validated table lacks a reference column
ref_keys(d, tname, reference_table, reference_column, allow_self_reference, ref_data) ==
    IF allow_self_reference /\ reference_table = tname
    THEN IF \E k \in 1..Len(reference_column) : ~HasColumn(d, reference_column[k])
         THEN [raised |-> TRUE,
               error |-> "\"" \o ListRepr(SelectSeq(reference_column, LAMBDA c : ~HasColumn(d, c))) \o " not in index\""]
         ELSE [raised |-> FALSE, error |-> "",
               frame |-> DropDuplicates(DataFrame(ref_data.columns, ref_data.rows \o Project(d, reference_column).rows))]
    ELSE [raised |-> FALSE, error |-> "", frame |-> ref_data]

\* a key as reported: a scalar for a single column, a tuple for several
CleanValue(foreign_key, key) == IF Len(foreign_key) > 1 THEN key ELSE key[1]

\* orphaned_values: the orphaned records among invalid_references[:10]
orphaned_values(foreign_key, invalid_references) ==
    LET head == SubSeq(invalid_references, 1,
                       IF Len(invalid_references) < SampleLimit
                       THEN Len(invalid_references) ELSE SampleLimit)
        orphans == SelectSeq(head, LAMBDA ref : ref.type = "orphaned_record")
    IN [k \in 1..Len(orphans) |-> CleanValue(foreign_key, orphans[k].value)]

ValidIgnoresNullViolations(total_references, invalid_references) ==
    total_references - Len(SelectSeq(invalid_references, LAMBDA ref : ref.type = "orphaned_record"))

\* valid_references = total_references - len(invalid_references)
count_valid(total_references, invalid_references) ==
    total_references - Len(invalid_references)

\* the part of _validate_foreign_key after the columns are known to exist
analyze_foreign_key(d, tname, rule, foreign_key, reference_table, reference_column, allow_nulls, ref_data) ==
    LET fk_tuples == Project(d, foreign_key).rows
        ref_tuples == Range(ref_data.rows)
        total_references == Len(fk_tuples)
        invalid_references == collect_invalid(fk_tuples, ref_tuples, allow_nulls, 1)
        null_count == Len(SelectSeq(fk_tuples, IsNullKey))
        valid_references == count_valid(total_references, invalid_references)
        orphaned_count == Len(SelectSeq(invalid_references, LAMBDA ref : ref.type = "orphaned_record"))
        null_violation_count == Len(SelectSeq(invalid_references, LAMBDA ref : ref.type = "null_value"))
        passed == Len(invalid_references) = 0
        issues == (IF orphaned_count > 0 THEN <<ToString(orphaned_count) \o " orphaned records">> ELSE <<>>)
                  \o (IF null_violation_count > 0 THEN <<ToString(null_violation_count) \o " null values">> ELSE <<>>)
        message == IF passed
                   THEN IF null_count > 0 /\ allow_nulls
                        THEN "All " \o ToString(total_references - null_count)
                             \o " non-null foreign key references are valid ("
                             \o ToString(null_count) \o " nulls allowed)"
                        ELSE "All " \o ToString(total_references) \o " foreign key references are valid"
                   ELSE "Foreign key validation failed: " \o Join(issues, ", ")
        details == [foreign_key_columns |-> foreign_key,
                    reference_table |-> reference_table,
                    reference_columns |-> reference_column,
                    total_references |-> total_references,
                    valid_references |-> valid_references,
                    invalid_references |-> Len(invalid_references),
                    orphaned_records |-> orphaned_count,
                    null_violations |-> null_violation_count,
                    null_count |-> null_count,
                    allow_nulls |-> allow_nulls,
                    orphaned_values |-> orphaned_values(foreign_key, invalid_references),
                    integrity_ratio |-> IF total_references > 0
                                        THEN <<valid_references, total_references>>
                                        ELSE <<1, 1>>]
    IN create_result(rule, tname, None, passed, message, details,
                     Len(invalid_references), total_references)

\* IntegrityValidator._validate_foreign_key: the Result, or the Exception
validate_foreign_key(self, d, tname, rule) ==
    LET p == rule.parameters
        fk == Get(p, "foreign_key", PyNone)
        reference_table == Get(p, "reference_table", None)
        rc == Get(p, "reference_column", PyNone)
        allow_nulls == Get(p, "allow_nulls", TRUE)
        allow_self_reference == Get(p, "allow_self_reference", FALSE)
    IN
    IF ~Truthy(fk) THEN Raise("foreign_key parameter is required")
    ELSE IF reference_table = None \/ reference_table = ""
    THEN Raise("reference_table parameter is required")
    ELSE IF ~Truthy(rc) THEN Raise("reference_column parameter is required")
    ELSE
    LET reference_data == get_reference_data(rule)
        foreign_key == AsList(fk)
        reference_column == AsList(rc)
        missing_fk_cols == SelectSeq(foreign_key, LAMBDA c : ~HasColumn(d, c))
    IN
    IF reference_data.raised THEN Raise(reference_data.error)
    ELSE IF Len(foreign_key) # Len(reference_column)
    THEN Raise("foreign_key and reference_column must have same length")
    ELSE IF missing_fk_cols # <<>>
    THEN Raise("Foreign key columns not found in data: " \o ListRepr(missing_fk_cols))
    ELSE IF reference_data.none
    THEN Raise("'NoneType' object has no attribute 'columns'")
    ELSE
    LET missing_ref_cols == SelectSeq(reference_column, LAMBDA c : ~HasColumn(reference_data.frame, c))
    IN
    IF missing_ref_cols # <<>>
    THEN Raise("Reference columns not found in reference data: " \o ListRepr(missing_ref_cols))
    ELSE
    LET keys == ref_keys(d, tname, reference_table, reference_column, allow_self_reference,
                         Project(reference_data.frame, reference_column))
    IN
    IF keys.raised THEN Raise(keys.error)
    ELSE Return(<<analyze_foreign_key(d, tname, rule, foreign_key, reference_table,
                                      reference_column, allow_nulls, keys.frame)>>)

RECURSIVE discovered_rules(_, _)
\* the rules _auto_discover_foreign_keys builds from the rows of the query
discovered_rules(self, rows) ==
    IF rows = <<>> THEN <<>>
    ELSE <<ValidationRule("auto_fk_" \o Head(rows).CONSTRAINT_NAME, "ERROR", TRUE,
                          [foreign_key |-> PyStr(Head(rows).COLUMN_NAME),
                           reference_table |-> Head(rows).REFERENCED_TABLE_NAME,
                           reference_column |-> PyStr(Head(rows).REFERENCED_COLUMN_NAME),
                           connector |-> self.connector])>>
         \o discovered_rules(self, Tail(rows))

DiscoverLastFirst(self, tname) ==
    IF ~self.connector.present THEN <<>>
    ELSE LET q == select_foreign_keys(self.connector, tname)
             found == IF q.raised THEN <<>> ELSE discovered_rules(self, q.rows)
         IN [k \in 1..Len(found) |-> found[Len(found) + 1 - k]]

\* IntegrityValidator._auto_discover_foreign_keys: any failure yields no rules
auto_discover_foreign_keys(self, tname) ==
    IF ~self.connector.present THEN <<>>
    ELSE LET q == select_foreign_keys(self.connector, tname)
         IN IF q.raised THEN <<>> ELSE discovered_rules(self, q.rows)

RECURSIVE IntegrityLoopPropagates(_, _, _, _)
IntegrityLoopPropagates(self, d, tname, rules) ==
    IF rules = <<>> THEN Return(<<>>)
    ELSE IF ~Head(rules).enabled THEN IntegrityLoopPropagates(self, d, tname, Tail(rules))
    ELSE LET o == validate_foreign_key(self, d, tname, Head(rules))
             rest == IntegrityLoopPropagates(self, d, tname, Tail(rules))
         IN IF o.raised THEN o
            ELSE IF rest.raised THEN rest
            ELSE Return(o.results \o rest.results)

RECURSIVE integrity_loop(_, _, _, _)
\* the for loop of IntegrityValidator.validate_table: one Result per enabled
\* rule, an Exception of _validate_foreign_key becoming an error Result
integrity_loop(self, d, tname, rules) ==
    IF rules = <<>> THEN Return(<<>>)
    ELSE IF ~Head(rules).enabled THEN integrity_loop(self, d, tname, Tail(rules))
    ELSE LET o == validate_foreign_key(self, d, tname, Head(rules))
             one == IF o.raised
                    THEN <<create_result(Head(rules), tname, None, FALSE,
                                         "Validation failed: " \o o.error,
                                         [error |-> o.error], 0, Len(d.rows))>>
                    ELSE o.results
         IN Return(one \o integrity_loop(self, d, tname, Tail(rules)).results)

\* the rules validate_table evaluates: the argument, else the registered
\* rules, else (none of them and a connector) the auto-discovered ones
integrity_rules(self, tname, rules) ==
    LET given == IF rules.t = "none" THEN self.rules ELSE rules.l
    IN IF given = <<>> /\ self.connector.present
       THEN auto_discover_foreign_keys(self, tname)
       ELSE given

\* IntegrityValidator.validate_table
integrity_validate_table(self, d, tname, rules) ==
    integrity_loop(self, d, tname, integrity_rules(self, tname, rules))

\* the dummy_rule of IntegrityValidator.validate_column
unsupported_rule ==
    ValidationRule("unsupported_operation", "ERROR", TRUE, EmptyDict)

\* IntegrityValidator.validate_column: always one failed Result
integrity_validate_column(self, series, tname, column_name, rules) ==
    Return(<<create_result(unsupported_rule, tname, column_name, FALSE,
               "Column-level validation not supported for referential integrity. Use table-level validation instead.",
               [operation |-> "column_validation", supported |-> FALSE,
                reason |-> "Referential integrity requires table-level context"],
               0, Len(series))>>)

----------------------------------------------------------------------------
(* Python str operations on column names.                                  *)

LowerChar(c) ==
    CASE c = "A" -> "a" [] c = "B" -> "b" [] c = "C" -> "c" [] c = "D" -> "d"
      [] c = "E" -> "e" [] c = "F" -> "f" [] c = "G" -> "g" [] c = "H" -> "h"
      [] c = "I" -> "i" [] c = "J" -> "j" [] c = "K" -> "k" [] c = "L" -> "l"
      [] c = "M" -> "m" [] c = "N" -> "n" [] c = "O" -> "o" [] c = "P" -> "p"
      [] c = "Q" -> "q" [] c = "R" -> "r" [] c = "S" -> "s" [] c = "T" -> "t"
      [] c = "U" -> "u" [] c = "V" -> "v" [] c = "W" -> "w" [] c = "X" -> "x"
      [] c = "Y" -> "y" [] c = "Z" -> "z" [] OTHER -> c

RECURSIVE Lower(_)
\* str.lower() (ASCII)
Lower(str) ==
    IF str = "" THEN ""
    ELSE LowerChar(SubSeq(str, 1, 1)) \o Lower(SubSeq(str, 2, Len(str)))

\* pattern in str
Contains(pattern, str) ==
    \E i \in 1..(Len(str) - Len(pattern) + 1) : SubSeq(str, i, i + Len(pattern) - 1) = pattern

----------------------------------------------------------------------------
(* duplicates.py: DuplicatesValidator.                                     *)

DuplicateSampleLimit == 10
CompositeSampleLimit == 5

PyInt(n) == [t |-> "int", v |-> n, repr |-> ToString(n)]
PyFloat(repr) == [t |-> "float", repr |-> repr]

DefaultSkipPatterns ==
    << "_id", "_uid", "fk_", "_fk", "foreign_key", "_key", "ref_", "_ref",
       "emp_id", "empresa_id", "cliente_id", "user_id", "usuario_id",
       "categoria_id", "tipo_id", "status_id", "parent_id", "uuid", "guid",
       "_uuid", "_guid", "uid", "endereco", "rua", "avenida", "cidade",
       "estado", "pais", "cep", "nome", "sobrenome", "titulo", "descricao",
       "observacao", "comentario", "telefone", "celular", "email", "cor",
       "tamanho", "peso", "altura", "largura", "marca", "modelo", "versao",
       "status", "situacao", "tipo", "categoria", "classe", "genero", "sexo",
       "nacionalidade", "profissao", "ativo", "inativo", "pendente",
       "aprovado", "rejeitado" >>

DefaultUniquePatterns ==
    << "cpf", "cnpj", "rg", "passaporte", "documento", "codigo", "numero",
       "serial", "sku", "barcode", "login", "username", "email_pessoal" >>

RECURSIVE Split(_, _)
\* str.split(sep) for a one-character separator
Split(str, sep) ==
    IF \A i \in 1..Len(str) : SubSeq(str, i, i) # sep THEN <<str>>
    ELSE LET at == CHOOSE i \in 1..Len(str) :
                      /\ SubSeq(str, i, i) = sep
                      /\ \A j \in 1..(i - 1) : SubSeq(str, j, j) # sep
         IN <<SubSeq(str, 1, at - 1)>> \o Split(SubSeq(str, at + 1, Len(str)), sep)

RECURSIVE Strip(_)
\* str.strip() (blanks)
Strip(str) ==
    IF str = "" THEN ""
    ELSE IF SubSeq(str, 1, 1) = " " THEN Strip(SubSeq(str, 2, Len(str)))
    ELSE IF SubSeq(str, Len(str), Len(str)) = " " THEN Strip(SubSeq(str, 1, Len(str) - 1))
    ELSE str

RECURSIVE StripAll(_)
StripAll(strs) == IF strs = <<>> THEN <<>> ELSE <<Strip(Head(strs))>> \o StripAll(Tail(strs))

\* [p.strip() for p in os.getenv(key, "").split(",") if p.strip()]
EnvItems(env, key) == SelectSeq(StripAll(Split(Get(env, key, ""), ",")), LAMBDA item : item # "")

\* DuplicatesValidator.__init__ with _load_patterns_from_env; env is
\* os.environ restricted to the four variables read
DuplicatesValidator(env) ==
    [kind |-> "duplicates", name |-> "duplicates",
     rules |-> <<ValidationRule("default_uniqueness", "ERROR", TRUE,
                                [max_duplicates |-> PyInt(0), ignore_nulls |-> TRUE])>>,
     force_unique_columns |-> Range(EnvItems(env, "FORCE_UNIQUE_COLUMNS")),
     allow_duplicate_columns |-> Range(EnvItems(env, "ALLOW_DUPLICATE_COLUMNS")),
     skip_patterns |-> IF EnvItems(env, "SKIP_DUPLICATE_PATTERNS") # <<>>
                       THEN EnvItems(env, "SKIP_DUPLICATE_PATTERNS")
                       ELSE DefaultSkipPatterns,
     unique_patterns |-> IF EnvItems(env, "FORCE_UNIQUE_PATTERNS") # <<>>
                         THEN EnvItems(env, "FORCE_UNIQUE_PATTERNS")
                         ELSE DefaultUniquePatterns]

SkipPatternsFirst(self, column_name) ==
    LET column_lower == Lower(column_name) IN
    IF column_name \in self.force_unique_columns THEN FALSE
    ELSE IF column_name \in self.allow_duplicate_columns THEN TRUE
    ELSE \E i \in 1..Len(self.skip_patterns) : Contains(self.skip_patterns[i], column_lower)

\* DuplicatesValidator._should_skip_column_for_duplicates
should_skip_column_for_duplicates(self, column_name) ==
    LET column_lower == Lower(column_name) IN
    IF column_name \in self.force_unique_columns THEN FALSE
    ELSE IF column_name \in self.allow_duplicate_columns THEN TRUE
    ELSE IF \E i \in 1..Len(self.unique_patterns) : Contains(self.unique_patterns[i], column_lower)
    THEN FALSE
    ELSE IF \E i \in 1..Len(self.skip_patterns) : Contains(self.skip_patterns[i], column_lower)
    THEN TRUE
    ELSE FALSE

BadMaxIgnoresSign(max_duplicates) == max_duplicates.t # "int"

\* not isinstance(max_duplicates, int) or max_duplicates < 0
BadMaxDuplicates(max_duplicates) == max_duplicates.t # "int" \/ max_duplicates.v < 0

MaxDuplicatesError(rule, max_duplicates) ==
    "Rule '" \o rule.name \o "': max_duplicates must be >= 0, got " \o max_duplicates.repr

\* series.dropna()
NonNull(series) == SelectSeq(series, LAMBDA cell : ~IsNa(cell))

CountedAlwaysIncludesNulls(series, ignore_nulls) == series

\* the values the duplicate metrics are computed on: data.dropna() when
\* ignore_nulls, else data (nunique(dropna=False) counts NaN as one value)
counted_values(series, ignore_nulls) ==
    IF ignore_nulls THEN NonNull(series) ELSE series

\* value_counts()[value_counts > 1].index.tolist(): the non-null values that
\* occur more than once, most frequent first (ties in order of appearance)
Occurrences(series, v) == Cardinality({i \in 1..Len(series) : series[i] = v})

RECURSIVE SortByCount(_, _)
SortByCount(values, series) ==
    IF values = <<>> THEN <<>>
    ELSE LET best == CHOOSE i \in 1..Len(values) :
                        /\ \A j \in 1..Len(values) :
                              Occurrences(series, values[j]) <= Occurrences(series, values[i])
                        /\ \A j \in 1..(i - 1) :
                              Occurrences(series, values[j]) < Occurrences(series, values[i])
         IN <<values[best]>> \o SortByCount(SubSeq(values, 1, best - 1) \o SubSeq(values, best + 1, Len(values)), series)

duplicate_values(working_data) ==
    SortByCount(SelectSeq(Distinct(NonNull(working_data)),
                          LAMBDA v : Occurrences(working_data, v) > 1),
                working_data)

FirstN(seq, n) == SubSeq(seq, 1, IF Len(seq) < n THEN Len(seq) ELSE n)

\* the body of the rule loop of validate_column for one single-column rule
column_duplicates(self, series, tname, column_name, rule, max_duplicates, ignore_nulls) ==
    LET counted == counted_values(series, ignore_nulls)
        unique_count == Cardinality(Range(counted))
        total_count == Len(counted)
        duplicate_count == total_count - unique_count
        passed == duplicate_count <= max_duplicates.v
        message == IF passed
                   THEN IF duplicate_count = 0
                        THEN "Column '" \o column_name \o "' has no duplicate values"
                        ELSE "Column '" \o column_name \o "' has " \o ToString(duplicate_count)
                             \o " duplicate values (<= " \o max_duplicates.repr \o " allowed)"
                   ELSE "Column '" \o column_name \o "' has " \o ToString(duplicate_count)
                        \o " duplicate values (> " \o max_duplicates.repr \o " allowed)"
        details == [unique_count |-> unique_count,
                    duplicate_count |-> duplicate_count,
                    total_rows |-> Len(series),
                    non_null_rows |-> Len(NonNull(series)),
                    duplicate_values |-> IF duplicate_count > 0
                                         THEN FirstN(duplicate_values(counted), DuplicateSampleLimit)
                                         ELSE <<>>,
                    max_duplicates |-> max_duplicates.v,
                    ignore_nulls |-> ignore_nulls]
    IN create_result(rule, tname, column_name, passed, message, details,
                     duplicate_count, Len(series))

RECURSIVE duplicates_column_loop(_, _, _, _, _)
\* the rule loop of DuplicatesValidator.validate_column; a bad max_duplicates
\* raises ValueError out of the loop
duplicates_column_loop(self, series, tname, column_name, rules) ==
    IF rules = <<>> THEN Return(<<>>)
    ELSE LET rule == Head(rules)
             rest == duplicates_column_loop(self, series, tname, column_name, Tail(rules))
             max_duplicates == Get(rule.parameters, "max_duplicates", PyInt(0))
             ignore_nulls == Get(rule.parameters, "ignore_nulls", TRUE)
         IN IF ~rule.enabled THEN rest
            ELSE IF "columns" \in DOMAIN rule.parameters THEN rest
            ELSE IF BadMaxDuplicates(max_duplicates)
            THEN Raise(MaxDuplicatesError(rule, max_duplicates))
            ELSE IF rest.raised THEN rest
            ELSE Return(<<column_duplicates(self, series, tname, column_name, rule,
                                            max_duplicates, ignore_nulls)>> \o rest.results)

\* DuplicatesValidator.validate_column
duplicates_validate_column(self, series, tname, column_name, rules) ==
    LET given == IF rules.t = "none" THEN self.rules ELSE rules.l IN
    IF given = <<>> THEN Return(<<>>)
    ELSE IF should_skip_column_for_duplicates(self, column_name) THEN Return(<<>>)
    ELSE duplicates_column_loop(self, series, tname, column_name, given)

CompositeKeepsNullRows(d, columns, ignore_nulls) == Project(d, columns)

\* key_data: data[columns], without the rows holding a null when ignore_nulls
key_data(d, columns, ignore_nulls) ==
    IF ignore_nulls THEN DropNa(Project(d, columns)) ELSE Project(d, columns)

\* DuplicatesValidator._validate_composite_key
validate_composite_key(self, d, tname, rule) ==
    LET columns == rule.parameters.columns
        max_duplicates == Get(rule.parameters, "max_duplicates", PyInt(0))
        ignore_nulls == Get(rule.parameters, "ignore_nulls", TRUE)
        missing_cols == SelectSeq(columns, LAMBDA c : ~HasColumn(d, c))
    IN
    IF BadMaxDuplicates(max_duplicates)
    THEN Raise(MaxDuplicatesError(rule, max_duplicates))
    ELSE IF missing_cols # <<>>
    THEN Raise("Rule '" \o rule.name \o "': columns " \o ListRepr(missing_cols) \o " not found in data")
    ELSE
    LET keys == key_data(d, columns, ignore_nulls)
        total_rows == Len(keys.rows)
        unique_count == Len(DropDuplicates(keys).rows)
        duplicate_count == total_rows - unique_count
        passed == duplicate_count <= max_duplicates.v
        columns_str == Join(columns, ", ")
        message == IF passed
                   THEN IF duplicate_count = 0
                        THEN "Composite key (" \o columns_str \o ") has no duplicate combinations"
                        ELSE "Composite key (" \o columns_str \o ") has " \o ToString(duplicate_count)
                             \o " duplicate combinations (<= " \o max_duplicates.repr \o " allowed)"
                   ELSE "Composite key (" \o columns_str \o ") has " \o ToString(duplicate_count)
                        \o " duplicate combinations (> " \o max_duplicates.repr \o " allowed)"
        duplicate_rows == SelectSeq(keys.rows, LAMBDA row : Occurrences(keys.rows, row) > 1)
        details == [composite_key_columns |-> columns,
                    unique_combinations |-> unique_count,
                    duplicate_combinations |-> duplicate_count,
                    total_combinations |-> total_rows,
                    sample_duplicates |-> IF duplicate_count > 0
                                          THEN FirstN(Distinct(duplicate_rows), CompositeSampleLimit)
                                          ELSE <<>>,
                    max_duplicates |-> max_duplicates.v,
                    ignore_nulls |-> ignore_nulls]
    IN Return(<<create_result(rule, tname, None, passed, message, details,
                              duplicate_count, Len(d.rows))>>)

RECURSIVE duplicates_each_column(_, _, _, _, _)
\* for column_name in data.columns: validate_column(data[column_name], ..., [rule])
duplicates_each_column(self, d, tname, columns, rule) ==
    IF columns = <<>> THEN Return(<<>>)
    ELSE LET o == duplicates_validate_column(self, Series(d, Head(columns)), tname,
                                             Head(columns), PyList(<<rule>>))
             rest == duplicates_each_column(self, d, tname, Tail(columns), rule)
         IN IF o.raised THEN o
            ELSE IF rest.raised THEN rest
            ELSE Return(o.results \o rest.results)

RECURSIVE duplicates_table_loop(_, _, _, _)
\* the rule loop of DuplicatesValidator.validate_table
duplicates_table_loop(self, d, tname, rules) ==
    IF rules = <<>> THEN Return(<<>>)
    ELSE LET rule == Head(rules)
             rest == duplicates_table_loop(self, d, tname, Tail(rules))
             o == IF "columns" \in DOMAIN rule.parameters
                  THEN validate_composite_key(self, d, tname, rule)
                  ELSE duplicates_each_column(self, d, tname, d.columns, rule)
         IN IF ~rule.enabled THEN rest
            ELSE IF o.raised THEN o
            ELSE IF rest.raised THEN rest
            ELSE Return(o.results \o rest.results)

\* DuplicatesValidator.validate_table
duplicates_validate_table(self, d, tname, rules) ==
    LET given == IF rules.t = "none" THEN self.rules ELSE rules.l IN
    duplicates_table_loop(self, d, tname, given)

----------------------------------------------------------------------------
(* completeness.py: CompletenessValidator.  A float is the exact fraction  *)
(* num/den (den > 0) with its repr; the fractions compared here have small *)
(* terms, for which float comparison and exact comparison agree.           *)

PyNum(num, den, repr) == [num |-> num, den |-> den, repr |-> repr]

\* f"{x:.1%}" for x = num/den >= 0
Percent1(num, den) ==
    LET tenths == (2000 * num + den) \div (2 * den)
    IN ToString(tenths \div 10) \o "." \o ToString(tenths % 10) \o "%"

\* CompletenessValidator.__init__
CompletenessValidator ==
    [kind |-> "completeness", name |-> "completeness",
     rules |-> <<ValidationRule("default_completeness", "WARNING", TRUE,
                                [threshold |-> PyNum(95, 100, "0.95")])>>]

ThresholdOnlyNegative(threshold) == threshold.num < 0

\* not (0.0 <= threshold <= 1.0)
ThresholdOutOfRange(threshold) == ~(0 <= threshold.num /\ threshold.num <= threshold.den)

\* completeness_ratio = non_null_count / total_rows if total_rows > 0 else 1.0
completeness_ratio(non_null_count, total_rows) ==
    IF total_rows > 0 THEN [num |-> non_null_count, den |-> total_rows]
    ELSE [num |-> 1, den |-> 1]

StrictlyAbove(ratio, threshold) == ratio.num * threshold.den > threshold.num * ratio.den

\* completeness_ratio >= threshold
AtLeast(ratio, threshold) == ratio.num * threshold.den >= threshold.num * ratio.den

\* the body of the rule loop of validate_column for one rule
column_completeness(series, tname, column_name, rule, threshold) ==
    LET total_rows == Len(series)
        null_count == Len(SelectSeq(series, IsNa))
        non_null_count == total_rows - null_count
        ratio == completeness_ratio(non_null_count, total_rows)
        passed == AtLeast(ratio, threshold)
        message == "Column '" \o column_name \o "' has " \o Percent1(ratio.num, ratio.den)
                   \o " completeness (" \o (IF passed THEN ">= " ELSE "< ")
                   \o Percent1(threshold.num, threshold.den) \o " required)"
        details == [null_count |-> null_count,
                    non_null_count |-> non_null_count,
                    completeness_ratio |-> ratio,
                    threshold |-> [num |-> threshold.num, den |-> threshold.den],
                    null_percentage |-> IF total_rows > 0
                                        THEN [num |-> null_count * 100, den |-> total_rows]
                                        ELSE [num |-> 0, den |-> 1]]
    IN create_result(rule, tname, column_name, passed, message, details, null_count, total_rows)

RECURSIVE completeness_column_loop(_, _, _, _)
\* the rule loop of CompletenessValidator.validate_column; a threshold
\* outside [0, 1] raises ValueError out of the loop
completeness_column_loop(series, tname, column_name, rules) ==
    IF rules = <<>> THEN Return(<<>>)
    ELSE LET rule == Head(rules)
             rest == completeness_column_loop(series, tname, column_name, Tail(rules))
             threshold == Get(rule.parameters, "threshold", PyNum(1, 1, "1.0"))
         IN IF ~rule.enabled THEN rest
            ELSE IF ThresholdOutOfRange(threshold)
            THEN Raise("Rule '" \o rule.name \o "': threshold must be between 0.0 and 1.0, got "
                       \o threshold.repr)
            ELSE IF rest.raised THEN rest
            ELSE Return(<<column_completeness(series, tname, column_name, rule, threshold)>>
                        \o rest.results)

\* CompletenessValidator.validate_column
completeness_validate_column(self, series, tname, column_name, rules) ==
    LET given == IF rules.t = "none" THEN self.rules ELSE rules.l IN
    IF given = <<>> THEN Return(<<>>)
    ELSE completeness_column_loop(series, tname, column_name, given)

RECURSIVE EachColumnLastFirst(_, _, _, _, _)
EachColumnLastFirst(self, d, tname, columns, rules) ==
    IF columns = <<>> THEN Return(<<>>)
    ELSE LET last == columns[Len(columns)]
             o == completeness_validate_column(self, Series(d, last), tname, last, PyList(rules))
             rest == EachColumnLastFirst(self, d, tname, SubSeq(columns, 1, Len(columns) - 1), rules)
         IN IF o.raised THEN o
            ELSE IF rest.raised THEN rest
            ELSE Return(o.results \o rest.results)

RECURSIVE completeness_each_column(_, _, _, _, _)
\* for column_name in data.columns: results.extend(self.validate_column(...))
completeness_each_column(self, d, tname, columns, rules) ==
    IF columns = <<>> THEN Return(<<>>)
    ELSE LET o == completeness_validate_column(self, Series(d, Head(columns)), tname,
                                               Head(columns), PyList(rules))
             rest == completeness_each_column(self, d, tname, Tail(columns), rules)
         IN IF o.raised THEN o
            ELSE IF rest.raised THEN rest
            ELSE Return(o.results \o rest.results)

\* CompletenessValidator.validate_table
completeness_validate_table(self, d, tname, rules) ==
    LET given == IF rules.t = "none" THEN self.rules ELSE rules.l IN
    IF given = <<>> THEN Return(<<>>)
    ELSE completeness_each_column(self, d, tname, d.columns, given)

----------------------------------------------------------------------------
(* re: the regular expressions of patterns.py.  A compiled pattern is a    *)
(* sequence of items: a run of min..max characters out of a set (max < 0   *)
(* for unbounded), an optional group, or the end anchor.  re.match anchors *)
(* the pattern at the start of the string.                                 *)

Digits == {"0", "1", "2", "3", "4", "5", "6", "7", "8", "9"}
Letters ==
    {"a", "b", "c", "d", "e", "f", "g", "h", "i", "j", "k", "l", "m"} \cup {"n", "o", "p", "q", "r", "s", "t", "u", "v", "w", "x", "y", "z"}
    \cup {"A", "B", "C", "D", "E", "F", "G", "H", "I", "J", "K", "L", "M"} \cup {"N", "O", "P", "Q", "R", "S", "T", "U", "V", "W", "X", "Y", "Z"}
Whitespace == {" ", "\t", "\n", "\r"}

Chars(chars, min, max) == [kind |-> "chars", chars |-> chars, items |-> <<>>, min |-> min, max |-> max]
Optional(items) == [kind |-> "group", chars |-> {}, items |-> items, min |-> 0, max |-> 1]
EndAnchor == [kind |-> "end", chars |-> {}, items |-> <<>>, min |-> 0, max |-> 0]

RECURSIVE RunLength(_, _, _, _)
\* how many characters of the set follow position p, counting up to limit
RunLength(chars, str, p, limit) ==
    IF limit = 0 \/ p >= Len(str) \/ SubSeq(str, p + 1, p + 1) \notin chars THEN 0
    ELSE 1 + RunLength(chars, str, p + 1, limit - 1)

\* the positions a run of item's characters can end at when it starts at p
RunEnds(item, str, p) ==
    LET longest == RunLength(item.chars, str, p, IF item.max < 0 THEN Len(str) ELSE item.max)
    IN {p + k : k \in item.min..longest}

RECURSIVE MatchEnds(_, _, _)
\* the positions the items can end at when they start at one of `starts`
MatchEnds(items, str, starts) ==
    IF items = <<>> THEN starts
    ELSE LET item == Head(items)
             ends == CASE item.kind = "chars" -> UNION {RunEnds(item, str, p) : p \in starts}
                       [] item.kind = "group" -> starts \cup MatchEnds(item.items, str, starts)
                       [] item.kind = "end" -> {p \in starts : p = Len(str)}
         IN MatchEnds(Tail(items), str, ends)

\* bool(re.match(pattern, str)) for a compiled pattern
re_match(compiled, str) == MatchEnds(compiled, str, {0}) # {}

RECURSIVE OnlyDigits(_)
\* re.sub(r"[^\d]", "", str)
OnlyDigits(str) ==
    IF str = "" THEN ""
    ELSE (IF SubSeq(str, 1, 1) \in Digits THEN SubSeq(str, 1, 1) ELSE "")
         \o OnlyDigits(SubSeq(str, 2, Len(str)))

\* int(digit)
DigitValue(c) == CHOOSE d \in 0..9 : ToString(d) = c

RECURSIVE WeightedSum(_, _, _)
\* sum(int(digit) * weight for digit, weight in zip(digits, weights)), from i on
WeightedSum(digits, weights, i) ==
    IF i > Len(weights) \/ i > Len(digits) THEN 0
    ELSE DigitValue(SubSeq(digits, i, i)) * weights[i] + WeightedSum(digits, weights, i + 1)

CalculateDigitAlwaysSubtracts(digits, weights) == 11 - (WeightedSum(digits, weights, 1) % 11)

\* calculate_digit
calculate_digit(digits, weights) ==
    LET remainder == WeightedSum(digits, weights, 1) % 11
    IN IF remainder < 2 THEN 0 ELSE 11 - remainder

CheckDigitsAllowsRepeats(digits, length, weights1, weights2) ==
    /\ Len(digits) = length
    /\ DigitValue(SubSeq(digits, length - 1, length - 1))
          = calculate_digit(SubSeq(digits, 1, length - 2), weights1)
    /\ DigitValue(SubSeq(digits, length, length))
          = calculate_digit(SubSeq(digits, 1, length - 1), weights2)

\* the length test and the two check digits shared by _validate_cnpj and
\* _validate_cpf
check_digits(digits, length, weights1, weights2) ==
    IF Len(digits) # length THEN FALSE
    ELSE IF \A i \in 1..Len(digits) : SubSeq(digits, i, i) = SubSeq(digits, 1, 1) THEN FALSE
    ELSE IF DigitValue(SubSeq(digits, length - 1, length - 1))
               # calculate_digit(SubSeq(digits, 1, length - 2), weights1)
    THEN FALSE
    ELSE DigitValue(SubSeq(digits, length, length))
            = calculate_digit(SubSeq(digits, 1, length - 1), weights2)

\* PatternsValidator._validate_cnpj
validate_cnpj(cnpj) ==
    check_digits(OnlyDigits(cnpj), 14, <<5, 4, 3, 2, 9, 8, 7, 6, 5, 4, 3, 2>>,
                 <<6, 5, 4, 3, 2, 9, 8, 7, 6, 5, 4, 3, 2>>)

\* PatternsValidator._validate_cpf
validate_cpf(cpf) ==
    check_digits(OnlyDigits(cpf), 11, <<10, 9, 8, 7, 6, 5, 4, 3, 2>>,
                 <<11, 10, 9, 8, 7, 6, 5, 4, 3, 2>>)

----------------------------------------------------------------------------
(* patterns.py: PatternsValidator.                                         *)

InvalidSampleLimit == 10

PatternConfig(regex, compiled, description, custom_validator) ==
    [regex |-> regex, compiled |-> compiled, valid |-> TRUE, error |-> "",
     description |-> description, validator |-> custom_validator]

\* self._patterns
Patterns ==
    [cnpj |-> PatternConfig("^\\d{2}\\.?\\d{3}\\.?\\d{3}\\/?\\d{4}-?\\d{2}$",
                 <<Chars(Digits, 2, 2), Chars({"."}, 0, 1), Chars(Digits, 3, 3), Chars({"."}, 0, 1),
                   Chars(Digits, 3, 3), Chars({"/"}, 0, 1), Chars(Digits, 4, 4), Chars({"-"}, 0, 1),
                   Chars(Digits, 2, 2), EndAnchor>>,
                 "Brazilian CNPJ format", "cnpj"),
     cpf |-> PatternConfig("^\\d{3}\\.?\\d{3}\\.?\\d{3}-?\\d{2}$",
                 <<Chars(Digits, 3, 3), Chars({"."}, 0, 1), Chars(Digits, 3, 3), Chars({"."}, 0, 1),
                   Chars(Digits, 3, 3), Chars({"-"}, 0, 1), Chars(Digits, 2, 2), EndAnchor>>,
                 "Brazilian CPF format", "cpf"),
     email |-> PatternConfig("^[a-zA-Z0-9._%+-]+@[a-zA-Z0-9.-]+\\.[a-zA-Z]{2,}$",
                 <<Chars(Letters \cup Digits \cup {".", "_", "%", "+", "-"}, 1, -1), Chars({"@"}, 1, 1),
                   Chars(Letters \cup Digits \cup {".", "-"}, 1, -1), Chars({"."}, 1, 1),
                   Chars(Letters, 2, -1), EndAnchor>>,
                 "Email format", None),
     phone_br |-> PatternConfig("^(\\(\\d{2}\\)\\s?)?\\d{4,5}-?\\d{4}$",
                 <<Optional(<<Chars({"("}, 1, 1), Chars(Digits, 2, 2), Chars({")"}, 1, 1),
                              Chars(Whitespace, 0, 1)>>),
                   Chars(Digits, 4, 5), Chars({"-"}, 0, 1), Chars(Digits, 4, 4), EndAnchor>>,
                 "Brazilian phone format", None),
     cep |-> PatternConfig("^\\d{5}-?\\d{3}$",
                 <<Chars(Digits, 5, 5), Chars({"-"}, 0, 1), Chars(Digits, 3, 3), EndAnchor>>,
                 "Brazilian CEP format", None)]

\* PatternsValidator.__init__
PatternsValidator ==
    [kind |-> "patterns", name |-> "patterns",
     rules |-> <<ValidationRule("default_pattern_check", "INFO", TRUE,
                                [pattern_type |-> "auto_detect", allow_nulls |-> TRUE])>>]

DetectCpfFirst(column_name) ==
    LET column_lower == Lower(column_name) IN
    IF Contains("cpf", column_lower) THEN "cpf"
    ELSE IF Contains("cnpj", column_lower) THEN "cnpj"
    ELSE IF Contains("mail", column_lower) THEN "email"
    ELSE IF Contains("fone", column_lower) \/ Contains("phone", column_lower) THEN "phone_br"
    ELSE IF Contains("cep", column_lower) THEN "cep"
    ELSE None

\* PatternsValidator._auto_detect_pattern
auto_detect_pattern(column_name) ==
    LET column_lower == Lower(column_name) IN
    IF Contains("cnpj", column_lower) THEN "cnpj"
    ELSE IF Contains("cpf", column_lower) THEN "cpf"
    ELSE IF Contains("email", column_lower) \/ Contains("mail", column_lower) THEN "email"
    ELSE IF \/ Contains("phone", column_lower)
            \/ Contains("telefone", column_lower)
            \/ Contains("fone", column_lower)
    THEN "phone_br"
    ELSE IF Contains("cep", column_lower) THEN "cep"
    ELSE None

IsBlankOnlyNa(value) == IsNa(value)

\* pd.isna(value) or value == ""
IsBlank(value) == IsNa(value) \/ value = ""

\* str(value)
Str(value) == IF IsNa(value) THEN "None" ELSE value

IsValidRegexAndChecksum(pattern_config, str_value) ==
    /\ re_match(pattern_config.compiled, str_value)
    /\ pattern_config.validator = "cnpj" => validate_cnpj(str_value)
    /\ pattern_config.validator = "cpf" => validate_cpf(str_value)

\* is_valid: the custom validator if the pattern has one, otherwise the regex
is_valid(pattern_config, str_value) ==
    IF pattern_config.validator = "cnpj" THEN validate_cnpj(str_value)
    ELSE IF pattern_config.validator = "cpf" THEN validate_cpf(str_value)
    ELSE re_match(pattern_config.compiled, str_value)

NullsNeverInvalid(allow_nulls) == FALSE

\* a null or empty value counts as invalid
null_is_invalid(allow_nulls) == ~allow_nulls

Tally(valid_count, invalid_count, null_count, invalid_values) ==
    [raised |-> FALSE, error |-> "", valid_count |-> valid_count, invalid_count |-> invalid_count,
     null_count |-> null_count, invalid_values |-> invalid_values]

RECURSIVE tally_values(_, _, _, _, _)
\* the loop `for value in data` of _validate_pattern from row i on, t being
\* the counters so far; re.match raises re.error on a pattern that does not
\* compile
tally_values(series, pattern_config, allow_nulls, i, t) ==
    IF i > Len(series) THEN t
    ELSE LET value == series[i]
             str_value == Strip(Str(value))
         IN IF IsBlank(value)
            THEN tally_values(series, pattern_config, allow_nulls, i + 1,
                    IF null_is_invalid(allow_nulls)
                    THEN Tally(t.valid_count, t.invalid_count + 1, t.null_count + 1,
                               Append(t.invalid_values, Str(value)))
                    ELSE Tally(t.valid_count + 1, t.invalid_count, t.null_count + 1,
                               t.invalid_values))
            ELSE IF pattern_config.validator = None /\ ~pattern_config.valid
            THEN Raise(pattern_config.error)
            ELSE tally_values(series, pattern_config, allow_nulls, i + 1,
                    IF is_valid(pattern_config, str_value)
                    THEN Tally(t.valid_count + 1, t.invalid_count, t.null_count, t.invalid_values)
                    ELSE Tally(t.valid_count, t.invalid_count + 1, t.null_count,
                               IF Len(t.invalid_values) < InvalidSampleLimit
                               THEN Append(t.invalid_values, str_value)
                               ELSE t.invalid_values))

\* a caller-supplied pattern as re compiles it; one that does not compile
\* makes re.match raise re.error(error)
Regex(text, compiled) == [text |-> text, compiled |-> compiled, valid |-> TRUE, error |-> ""]
BadRegex(text, error) == [text |-> text, compiled |-> <<>>, valid |-> FALSE, error |-> error]

\* the counting and the Result of _validate_pattern once the pattern is known
pattern_result(series, tname, column_name, rule, pattern_type, pattern_config, allow_nulls) ==
    LET t == tally_values(series, pattern_config, allow_nulls, 1, Tally(0, 0, 0, <<>>)) IN
    IF t.raised THEN t
    ELSE
    LET passed == t.invalid_count = 0
        issues == (IF t.invalid_count > 0
                   THEN <<ToString(t.invalid_count) \o " invalid format">> ELSE <<>>)
                  \o (IF t.null_count > 0 /\ ~allow_nulls
                      THEN <<ToString(t.null_count) \o " null values">> ELSE <<>>)
        message == IF passed
                   THEN IF t.null_count > 0 /\ allow_nulls
                        THEN "All " \o ToString(t.valid_count) \o " non-null values match "
                             \o pattern_type \o " pattern (" \o ToString(t.null_count)
                             \o " nulls allowed)"
                        ELSE "All " \o ToString(t.valid_count) \o " values match "
                             \o pattern_type \o " pattern"
                   ELSE "Pattern validation failed: " \o Join(issues, ", ")
        details == [pattern_type |-> pattern_type,
                    pattern_description |-> pattern_config.description,
                    regex_pattern |-> pattern_config.regex,
                    valid_count |-> t.valid_count,
                    invalid_count |-> t.invalid_count,
                    null_count |-> t.null_count,
                    allow_nulls |-> allow_nulls,
                    invalid_values |-> t.invalid_values,
                    validity_ratio |-> IF Len(series) > 0
                                       THEN [num |-> t.valid_count, den |-> Len(series)]
                                       ELSE [num |-> 1, den |-> 1]]
    IN Return(<<create_result(rule, tname, column_name, passed, message, details,
                              t.invalid_count, Len(series))>>)

\* PatternsValidator._validate_pattern
validate_pattern(self, series, tname, column_name, rule) ==
    LET requested == Get(rule.parameters, "pattern_type", "auto_detect")
        allow_nulls == Get(rule.parameters, "allow_nulls", TRUE)
        pattern_type == IF requested = "auto_detect" THEN auto_detect_pattern(column_name)
                        ELSE requested
        regex_pattern == Get(rule.parameters, "regex_pattern", Regex("", <<>>))
    IN
    IF requested = "auto_detect" /\ pattern_type = None
    THEN Return(<<create_result(rule, tname, column_name, TRUE,
                     "No specific pattern detected for column '" \o column_name \o "'",
                     [pattern_type |-> "none", auto_detected |-> TRUE, column_name |-> column_name],
                     0, Len(series))>>)
    ELSE IF pattern_type = "regex"
    THEN IF regex_pattern.text = ""
         THEN Raise("regex_pattern parameter is required for custom regex validation")
         ELSE pattern_result(series, tname, column_name, rule, pattern_type,
                  [regex |-> regex_pattern.text, compiled |-> regex_pattern.compiled,
                   valid |-> regex_pattern.valid, error |-> regex_pattern.error,
                   description |-> Get(rule.parameters, "description", "Custom regex pattern"),
                   validator |-> None],
                  allow_nulls)
    ELSE IF pattern_type \in DOMAIN Patterns
    THEN pattern_result(series, tname, column_name, rule, pattern_type, Patterns[pattern_type],
                        allow_nulls)
    ELSE Raise("Unsupported pattern type: " \o pattern_type)

RECURSIVE PatternsLoopPropagates(_, _, _, _, _)
PatternsLoopPropagates(self, series, tname, column_name, rules) ==
    IF rules = <<>> THEN Return(<<>>)
    ELSE LET rule == Head(rules)
             rest == PatternsLoopPropagates(self, series, tname, column_name, Tail(rules))
             o == validate_pattern(self, series, tname, column_name, rule)
         IN IF ~rule.enabled THEN rest
            ELSE IF o.raised THEN o
            ELSE IF rest.raised THEN rest
            ELSE Return(o.results \o rest.results)

RECURSIVE patterns_column_loop(_, _, _, _, _)
\* the rule loop of PatternsValidator.validate_column: an exception of
\* _validate_pattern becomes a failed Result of the rule
patterns_column_loop(self, series, tname, column_name, rules) ==
    IF rules = <<>> THEN Return(<<>>)
    ELSE LET rule == Head(rules)
             rest == patterns_column_loop(self, series, tname, column_name, Tail(rules))
             o == validate_pattern(self, series, tname, column_name, rule)
         IN IF ~rule.enabled THEN rest
            ELSE IF o.raised
            THEN Return(<<create_result(rule, tname, column_name, FALSE,
                             "Pattern validation failed: " \o o.error,
                             [error |-> o.error], 0, Len(series))>> \o rest.results)
            ELSE Return(o.results \o rest.results)

\* PatternsValidator.validate_column
patterns_validate_column(self, series, tname, column_name, rules) ==
    LET given == IF rules.t = "none" THEN self.rules ELSE rules.l IN
    IF given = <<>> THEN Return(<<>>)
    ELSE patterns_column_loop(self, series, tname, column_name, given)

RECURSIVE patterns_each_column(_, _, _, _, _)
\* for column_name in data.columns: results.extend(self.validate_column(...))
patterns_each_column(self, d, tname, columns, rules) ==
    IF columns = <<>> THEN Return(<<>>)
    ELSE Return(patterns_validate_column(self, Series(d, Head(columns)), tname,
                                         Head(columns), PyList(rules)).results
                \o patterns_each_column(self, d, tname, Tail(columns), rules).results)

\* PatternsValidator.validate_table
patterns_validate_table(self, d, tname, rules) ==
    LET given == IF rules.t = "none" THEN self.rules ELSE rules.l IN
    IF given = <<>> THEN Return(<<>>)
    ELSE patterns_each_column(self, d, tname, d.columns, given)

----------------------------------------------------------------------------
(* Validators known to the engine.  A Mock is a validator whose            *)
(* validate_table is scripted (unittest.mock in the tests): it returns     *)
(* `returns` or raises Exception(`error`).                                 *)

MockResult(n) ==
    ValidationResult(n, "mock_table", None, "INFO", TRUE, "mock", EmptyDict, 0, 0)

Mock(id, name, raises, error, returns) ==
    [kind |-> "mock", id |-> id, name |-> name, raises |-> raises,
     error |-> error, returns |-> returns]

\* validator.validate_table(data, table_name, rules) of the validator's class
validate_table(self, d, tname, rules) ==
    CASE self.kind = "mock" ->
            IF self.raises THEN Raise(self.error) ELSE Return(self.returns)
      [] self.kind = "completeness" -> completeness_validate_table(self, d, tname, rules)
      [] self.kind = "duplicates" -> duplicates_validate_table(self, d, tname, rules)
      [] self.kind = "integrity" -> integrity_validate_table(self, d, tname, rules)
      [] self.kind = "patterns" -> patterns_validate_table(self, d, tname, rules)

\* validator.validate_column(data, table_name, column_name, rules) of the
\* validator's class
validate_column(self, series, tname, column_name, rules) ==
    CASE self.kind = "completeness" -> completeness_validate_column(self, series, tname, column_name, rules)
      [] self.kind = "duplicates" -> duplicates_validate_column(self, series, tname, column_name, rules)
      [] self.kind = "integrity" -> integrity_validate_column(self, series, tname, column_name, rules)
      [] self.kind = "patterns" -> patterns_validate_column(self, series, tname, column_name, rules)

----------------------------------------------------------------------------
(* base.py: ValidationEngine.                                              *)

RECURSIVE KeyIndex(_, _)
\* position of key k in the dict (0 when absent)
KeyIndex(dict, k) ==
    IF dict = <<>> THEN 0
    ELSE IF dict[Len(dict)].key = k THEN Len(dict)
    ELSE KeyIndex(SubSeq(dict, 1, Len(dict) - 1), k)

HasKey(dict, k) == KeyIndex(dict, k) # 0

\* list(dict.values())
Values(dict) == [i \in 1..Len(dict) |-> dict[i].value]

\* self._validators[validator.name] = validator : a new key is appended, an
\* existing key keeps its position and gets the new value.
RegisterMovesToEnd(dict, v) ==
    SelectSeq(dict, LAMBDA e : e.key # v.name) \o <<[key |-> v.name, value |-> v]>>

register_validator(dict, v) ==
    IF HasKey(dict, v.name)
    THEN [dict EXCEPT ![KeyIndex(dict, v.name)].value = v]
    ELSE Append(dict, [key |-> v.name, value |-> v])

\* self._validators.get(name)
get_validator(dict, name) ==
    IF HasKey(dict, name) THEN PyList(<<dict[KeyIndex(dict, name)].value>>)
    ELSE PyNone

RECURSIVE NamedValidators(_, _)
\* [self._validators[name] for name in validator_names if name in self._validators]
NamedValidators(dict, names) ==
    IF names = <<>> THEN <<>>
    ELSE (IF HasKey(dict, Head(names))
          THEN <<dict[KeyIndex(dict, Head(names))].value>>
          ELSE <<>>) \o NamedValidators(dict, Tail(names))

ToRunIgnoresNames(dict, validator_names) == Values(dict)

validators_to_run(dict, validator_names) ==
    IF Truthy(validator_names)
    THEN NamedValidators(dict, validator_names.l)
    ELSE Values(dict)

ErrorResultKeepsError(v, tname, e) ==
    ValidationResult(v.name \o "_error", tname, None, "ERROR", FALSE,
                     "Validator " \o v.name \o " failed: " \o e,
                     [error |-> e], 0, 0)

\* the ValidationResult built in the except branch of validate_data
error_result(v, tname, e) ==
    ValidationResult(v.name \o "_error", tname, None, "CRITICAL", FALSE,
                     "Validator " \o v.name \o " failed: " \o e,
                     [error |-> e], 0, 0)

RECURSIVE RunAbortsOnError(_, _, _)
RunAbortsOnError(vs, d, tname) ==
    IF vs = <<>> THEN <<>>
    ELSE LET o == validate_table(Head(vs), d, tname, PyNone) IN
         IF o.raised THEN <<error_result(Head(vs), tname, o.error)>>
         ELSE o.results \o RunAbortsOnError(Tail(vs), d, tname)

RECURSIVE run_validators(_, _, _)
\* the for loop of validate_data: try validate_table, extend or append error
run_validators(vs, d, tname) ==
    IF vs = <<>> THEN <<>>
    ELSE LET o == validate_table(Head(vs), d, tname, PyNone) IN
         (IF o.raised THEN <<error_result(Head(vs), tname, o.error)>>
          ELSE o.results) \o run_validators(Tail(vs), d, tname)

validate_data(dict, d, tname, validator_names) ==
    Return(run_validators(validators_to_run(dict, validator_names), d, tname))

----------------------------------------------------------------------------
(* The engine specification: validators are registered and the engine is   *)
(* run on a dataset, with all validators or with a list of names.          *)

ValidatorNames == {"validator1", "validator2", "unknown"}

SeqsUpTo(S, n) == UNION {[1..k -> S] : k \in 0..n}

NoValidator == [kind |-> "none"]

Init ==
    /\ engine = <<>>
    /\ registered = <<>>
    /\ validator = NoValidator
    /\ data = DataFrame(<<"col1">>, <<<<"1">>, <<"2">>, <<"3">>>>)
    /\ table_name = "test_table"
    /\ rules_arg = PyNone
    /\ args = NoCall
    /\ ran = <<>>
    /\ outcome = Return(<<>>)
    /\ orchestrator = None

RegisterValidator ==
    /\ Len(registered) < MaxRegistrations
    /\ \E v \in { Mock(1, "validator1", FALSE, "", <<MockResult("m1_a")>>),
                  Mock(2, "validator2", FALSE, "", <<MockResult("m2_a"), MockResult("m2_b")>>),
                  Mock(3, "validator1", TRUE, "Validator error", <<>>),
                  Mock(4, "validator2", TRUE, "boom", <<>>) } :
          /\ engine' = register_validator(engine, v)
          /\ registered' = Append(registered, v)
          /\ args' = [op |-> "register_validator", name |-> v.name]
    /\ ran' = <<>>
    /\ outcome' = Return(<<>>)
    /\ UNCHANGED <<validator, data, table_name, rules_arg, orchestrator>>

ValidateData ==
    \E names \in {PyNone} \cup {PyList(l) : l \in SeqsUpTo(ValidatorNames, MaxNames)} :
       /\ args' = [op |-> "validate_data", validator_names |-> names]
       /\ ran' = validators_to_run(engine, names)
       /\ outcome' = validate_data(engine, data, table_name, names)
       /\ UNCHANGED <<engine, registered, validator, data, table_name, rules_arg, orchestrator>>

Next == RegisterValidator \/ ValidateData

Spec == Init /\ [][Next]_vars

----------------------------------------------------------------------------
(* The validator-level specifications: a validator, a table and a rules    *)
(* argument are drawn, and validate_table / validate_column are called.    *)

Cells == {NULL, "1", "2"}
RefCells == {NULL, "1"}

\* the DataFrames with the given columns, at most n rows and cells from S
Tables(columns, S, n) ==
    {DataFrame(columns, rows) : rows \in SeqsUpTo([1..Len(columns) -> S], n)}

ValidatorInit ==
    /\ engine = <<>>
    /\ registered = <<>>
    /\ args = NoCall
    /\ ran = <<>>
    /\ outcome = Return(<<>>)
    /\ orchestrator = None

----------------------------------------------------------------------------
(* SpecIntegrity: IntegrityValidator on a table "categories" with columns  *)
(* id and parent_id.                                                       *)

IntegrityColumns == <<"id", "parent_id">>
RefTables == Tables(IntegrityColumns, RefCells, MaxRefRows)

FkSingle == [foreign_key |-> PyStr("parent_id"), reference_column |-> PyStr("id")]
FkComposite == [foreign_key |-> PyList(<<"id", "parent_id">>), reference_column |-> PyList(<<"id", "parent_id">>)]

FkRule(name, severity, enabled, keys, reference_table, more) ==
    ValidationRule(name, severity, enabled,
                   keys @@ [reference_table |-> reference_table] @@ more)

OneRefRow == DataFrame(IntegrityColumns, <<<<"1", "1">>>>)

\* well-formed rules: single or composite key, own or other table, reference
\* data of every shape, nulls allowed or not, self reference allowed or not
GoodRules ==
    {FkRule("fk", "ERROR", TRUE, keys, rt,
            [reference_data |-> ref, allow_nulls |-> an, allow_self_reference |-> self])
        : keys \in {FkSingle, FkComposite}, rt \in {"categories", "other"},
          ref \in RefTables, an \in BOOLEAN, self \in BOOLEAN}
    \cup
    {FkRule("fk_defaults", "WARNING", TRUE, keys, rt, [reference_data |-> OneRefRow])
        : keys \in {FkSingle, FkComposite,
                    [foreign_key |-> PyList(<<"parent_id">>), reference_column |-> PyStr("id")]},
          rt \in {"categories", "other"}}

GoodDb == Connector([t \in {"categories", "other"} |-> OneRefRow],
                    [t \in {"categories"} |->
                       <<[COLUMN_NAME |-> "parent_id", REFERENCED_TABLE_NAME |-> "other",
                          REFERENCED_COLUMN_NAME |-> "id", CONSTRAINT_NAME |-> "fk_parent"]>>],
                    FALSE)

\* databases declaring each set of constraints on "categories", holding each
\* reference table, and one whose metadata query fails
Databases ==
    LET row(c, t, rc, n) == [COLUMN_NAME |-> c, REFERENCED_TABLE_NAME |-> t,
                             REFERENCED_COLUMN_NAME |-> rc, CONSTRAINT_NAME |-> n]
        constraints ==
            { <<>>,
              <<row("parent_id", "other", "id", "fk_parent")>>,
              <<row("parent_id", "other", "id", "fk_parent"), row("id", "dropped", "id", "fk_stale")>>,
              <<row("owner", "other", "id", "fk_owner"), row("parent_id", "categories", "id", "fk_self")>> }
    IN {Connector([t \in {"categories", "other"} |-> OneRefRow], [t \in {"categories"} |-> fks], FALSE)
           : fks \in constraints}
       \cup {Connector([t \in {"categories", "other"} |-> ref],
                       [t \in {"categories"} |-> GoodDb.foreign_keys["categories"]], FALSE)
               : ref \in RefTables}
       \cup {Connector([t \in {"other"} |-> OneRefRow], [t \in {"categories"} |-> <<>>], TRUE)}

\* rules that cannot be evaluated, one per cause
BadRules ==
    { FkRule("no_fk", "ERROR", TRUE, [reference_column |-> PyStr("id")], "other", [reference_data |-> OneRefRow]),
      FkRule("empty_fk", "ERROR", TRUE, [foreign_key |-> PyList(<<>>), reference_column |-> PyStr("id")], "other", [reference_data |-> OneRefRow]),
      ValidationRule("no_ref_table", "ERROR", TRUE, FkSingle @@ [reference_data |-> OneRefRow]),
      FkRule("no_ref_column", "ERROR", TRUE, [foreign_key |-> PyStr("parent_id")], "other", [reference_data |-> OneRefRow]),
      FkRule("no_ref_data", "ERROR", TRUE, FkSingle, "other", EmptyDict),
      FkRule("fk_col_absent", "ERROR", TRUE, [foreign_key |-> PyStr("owner"), reference_column |-> PyStr("id")], "other", [reference_data |-> OneRefRow]),
      FkRule("ref_col_absent", "ERROR", TRUE, [foreign_key |-> PyStr("parent_id"), reference_column |-> PyStr("uid")], "other", [reference_data |-> OneRefRow]),
      FkRule("arity", "ERROR", TRUE, [foreign_key |-> PyList(<<"id", "parent_id">>), reference_column |-> PyStr("id")], "other", [reference_data |-> OneRefRow]),
      FkRule("self_col_absent", "ERROR", TRUE, [foreign_key |-> PyStr("parent_id"), reference_column |-> PyStr("uid")], "categories",
             [reference_data |-> DataFrame(<<"uid">>, <<<<"1">>>>), allow_self_reference |-> TRUE]),
      FkRule("db_rejects", "ERROR", TRUE, FkSingle, "dropped", [connector |-> GoodDb]),
      FkRule("via_db", "WARNING", TRUE, FkSingle, "other", [connector |-> GoodDb]),
      FkRule("self_via_db", "INFO", TRUE, FkSingle, "categories", [connector |-> GoodDb, allow_self_reference |-> TRUE, allow_nulls |-> FALSE]) }

\* the rules of the lists of several rules
SmallRules ==
    { FkRule("ok", "ERROR", TRUE, FkSingle, "other", [reference_data |-> OneRefRow]),
      FkRule("strict", "CRITICAL", TRUE, FkSingle, "other", [reference_data |-> OneRefRow, allow_nulls |-> FALSE]),
      FkRule("off", "INFO", FALSE, FkSingle, "other", [reference_data |-> OneRefRow]),
      FkRule("no_fk", "WARNING", TRUE, [reference_column |-> PyStr("id")], "other", [reference_data |-> OneRefRow]),
      FkRule("no_ref_data", "ERROR", TRUE, FkSingle, "other", EmptyDict) }

RuleLists(S) == UNION {[1..k -> S] : k \in 2..MaxRules}

InitIntegrity ==
    /\ ValidatorInit
    /\ table_name = "categories"
    /\ \/ /\ validator = IntegrityValidator(NoConnector, <<>>)
          /\ data \in Tables(IntegrityColumns, Cells, MaxRows)
          /\ \E r \in GoodRules \cup BadRules : rules_arg = PyList(<<r>>)
       \/ /\ validator = IntegrityValidator(NoConnector, <<>>)
          /\ data \in Tables(IntegrityColumns, Cells, MaxRefRows)
          /\ \E l \in RuleLists(SmallRules) : rules_arg = PyList(l)
       \/ /\ \E db \in Databases \cup {NoConnector}, l \in SeqsUpTo(SmallRules, 1) :
                validator = IntegrityValidator(db, l)
          /\ data \in Tables(IntegrityColumns, Cells, MaxRefRows)
          /\ rules_arg \in {PyNone, PyList(<<>>)}
       \/ /\ validator = IntegrityValidator(NoConnector, <<>>)
          /\ \E a, b \in {0, 1, SampleLimit + 1}, nulls_first \in BOOLEAN :
                LET nulls == [i \in 1..a |-> <<"1", NULL>>]
                    orphans == [i \in 1..b |-> <<"1", "2">>]
                IN data = DataFrame(IntegrityColumns, IF nulls_first THEN nulls \o orphans ELSE orphans \o nulls)
          /\ \E keys \in {FkSingle, FkComposite}, an \in BOOLEAN :
                rules_arg = PyList(<<FkRule("fk", "ERROR", TRUE, keys, "other",
                                            [reference_data |-> OneRefRow, allow_nulls |-> an])>>)

\* a call of validate_table on the validator
ValidateTable ==
    /\ validator # NoValidator
    /\ args' = [op |-> "validate_table"]
    /\ outcome' = validate_table(validator, data, table_name, rules_arg)
    /\ UNCHANGED <<engine, registered, validator, data, table_name, rules_arg, ran, orchestrator>>

\* a call of validate_column on the validator, with a column of the table
ValidateColumn ==
    /\ validator # NoValidator
    /\ \E c \in Range(data.columns) :
          /\ args' = [op |-> "validate_column", column_name |-> c]
          /\ outcome' = validate_column(validator, Series(data, c), table_name, c, rules_arg)
    /\ UNCHANGED <<engine, registered, validator, data, table_name, rules_arg, ran, orchestrator>>

NextValidator == ValidateTable \/ ValidateColumn

SpecIntegrity == InitIntegrity /\ [][NextValidator]_vars

----------------------------------------------------------------------------
(* SpecDuplicates: DuplicatesValidator on a table "orders".  Column valor  *)
(* matches no name pattern, status matches a skip pattern, Codigo_Status   *)
(* matches a unique pattern before the skip pattern.                       *)

DuplicateColumns == <<"valor", "status">>

\* single-column and composite rules over every max_duplicates and
\* ignore_nulls setting, absent ones included
DuplicateRules ==
    LET max_duplicates == {PyInt(0), PyInt(1), PyInt(-1), PyFloat("1.5")}
        ignore_nulls == {EmptyDict} \cup {[ignore_nulls |-> b] : b \in BOOLEAN}
        columns == {<<"valor", "status">>, <<"valor">>, <<"valor", "missing">>}
    IN {ValidationRule("unique", "WARNING", TRUE, m @@ n) :
           m \in {EmptyDict} \cup {[max_duplicates |-> v] : v \in max_duplicates}, n \in ignore_nulls}
       \cup
       {ValidationRule("composite_key", "CRITICAL", TRUE, [columns |-> c] @@ m @@ n) :
           c \in columns,
           m \in {EmptyDict, [max_duplicates |-> PyInt(1)], [max_duplicates |-> PyFloat("0.5")]},
           n \in ignore_nulls}

SmallDuplicateRules ==
    { ValidationRule("one_allowed", "INFO", TRUE, [max_duplicates |-> PyInt(1), ignore_nulls |-> FALSE]),
      ValidationRule("pair", "CRITICAL", TRUE, [columns |-> DuplicateColumns]),
      ValidationRule("off", "WARNING", FALSE, [columns |-> <<"valor">>]),
      ValidationRule("strict", "ERROR", TRUE, EmptyDict),
      ValidationRule("negative", "ERROR", TRUE, [columns |-> <<"valor">>, max_duplicates |-> PyInt(-1)]) }

InitDuplicates ==
    /\ ValidatorInit
    /\ table_name = "orders"
    /\ \/ /\ validator = DuplicatesValidator(EmptyDict)
          /\ \E rows \in SeqsUpTo({<<a, "1">> : a \in Cells} \cup {<<"1", NULL>>}, MaxKeyRows) :
                data = DataFrame(DuplicateColumns, rows)
          /\ \E r \in DuplicateRules : rules_arg = PyList(<<r>>)
       \/ /\ validator = DuplicatesValidator(EmptyDict)
          /\ \E rows \in SeqsUpTo(Cells \X RefCells, MaxRows) : data = DataFrame(DuplicateColumns, rows)
          /\ \E l \in RuleLists(SmallDuplicateRules) : rules_arg = PyList(l)
       \/ /\ \E env \in { EmptyDict,
                          [FORCE_UNIQUE_COLUMNS |-> "status"],
                          [ALLOW_DUPLICATE_COLUMNS |-> " valor ,"],
                          [FORCE_UNIQUE_COLUMNS |-> "valor", ALLOW_DUPLICATE_COLUMNS |-> "valor,Codigo_Status"],
                          [SKIP_DUPLICATE_PATTERNS |-> "val", FORCE_UNIQUE_PATTERNS |-> "stat, x"] } :
                validator = DuplicatesValidator(env)
          /\ \E columns \in {DuplicateColumns, <<"Codigo_Status", "valor">>},
                rows \in SeqsUpTo(Cells \X RefCells, MaxRefRows) : data = DataFrame(columns, rows)
          /\ \/ rules_arg \in {PyNone, PyList(<<>>)}
             \/ \E r \in SmallDuplicateRules \cup
                         {ValidationRule("below_zero", "WARNING", TRUE, [max_duplicates |-> PyInt(-1)])} :
                   r.enabled /\ rules_arg = PyList(<<r>>)

SpecDuplicates == InitDuplicates /\ [][NextValidator]_vars

----------------------------------------------------------------------------
(* SpecCompleteness: CompletenessValidator on a table "customers" of zero  *)
(* to two columns.                                                         *)

InitCompleteness ==
    LET CompletenessRules ==
            {ValidationRule("complete", severity, enabled, parameters) :
                severity \in {"ERROR", "INFO"}, enabled \in BOOLEAN,
                parameters \in {EmptyDict} \cup
                    {[threshold |-> t] : t \in {PyNum(0, 1, "0.0"), PyNum(1, 2, "0.5"), PyNum(1, 1, "1.0"),
                                                PyNum(-1, 10, "-0.1"), PyNum(3, 2, "1.5")}}}
        SmallCompletenessRules ==
            { ValidationRule("half", "ERROR", TRUE, [threshold |-> PyNum(1, 2, "0.5")]),
              ValidationRule("full", "CRITICAL", TRUE, EmptyDict),
              ValidationRule("off", "INFO", FALSE, [threshold |-> PyNum(3, 2, "1.5")]),
              ValidationRule("negative", "WARNING", TRUE, [threshold |-> PyNum(-1, 10, "-0.1")]) }
    IN
    /\ ValidatorInit
    /\ table_name = "customers"
    /\ validator = CompletenessValidator
    /\ \E columns \in {<<>>, <<"name">>, <<"name", "city">>} :
          data \in Tables(columns, RefCells, MaxRows)
    /\ \/ rules_arg \in {PyNone, PyList(<<>>)}
       \/ \E r \in CompletenessRules : rules_arg = PyList(<<r>>)
       \/ \E l \in RuleLists(SmallCompletenessRules) : rules_arg = PyList(l)

SpecCompleteness == InitCompleteness /\ [][NextValidator]_vars

----------------------------------------------------------------------------
(* SpecPatterns: PatternsValidator on a table "contacts" of one or two     *)
(* columns; the column name decides what auto-detection finds.             *)

\* rules of every pattern_type and allow_nulls setting, absent ones included
PatternRules ==
    LET custom == {Regex("^\\d{5}", <<Chars(Digits, 5, 5)>>),
                   BadRegex("[", "unterminated character set at position 0")}
    IN {ValidationRule("format", "WARNING", TRUE, t @@ n) :
           t \in {EmptyDict}
                 \cup {[pattern_type |-> p] : p \in DOMAIN Patterns \cup {"auto_detect", "regex", "ssn"}}
                 \cup {[pattern_type |-> "regex", regex_pattern |-> r] : r \in custom},
           n \in {EmptyDict} \cup {[allow_nulls |-> b] : b \in BOOLEAN}}

InitPatterns ==
    LET SmallPatternRules ==
            { ValidationRule("cep_only", "ERROR", TRUE, [pattern_type |-> "cep", allow_nulls |-> FALSE]),
              ValidationRule("guess", "INFO", TRUE, EmptyDict),
              ValidationRule("off", "CRITICAL", FALSE, [pattern_type |-> "cpf"]),
              ValidationRule("ssn", "WARNING", TRUE, [pattern_type |-> "ssn"]) }
    IN
    /\ ValidatorInit
    /\ table_name = "contacts"
    /\ validator = PatternsValidator
    /\ \/ /\ \E c \in {"valor", "CEP", "cpf_cliente", "CPF_CNPJ", "Email", "telefone", "fone_mail"} :
                data \in Tables(<<c>>, {NULL, "", " 12345-678 ", "111.444.777-35", "x11144477735",
                                        "11.222.333/0001-81", "a.b@c.co", "(11) 91234-5678"},
                                MaxRefRows)
          /\ \/ rules_arg \in {PyNone, PyList(<<>>)}
             \/ \E r \in PatternRules : rules_arg = PyList(<<r>>)
       \/ /\ \E c \in {"valor", "CEP"} :
                data \in Tables(<<c, "email">>, {NULL, "12345-678", "a.b@c.co"}, MaxRefRows)
          /\ \E l \in RuleLists(SmallPatternRules) : rules_arg = PyList(l)
       \/ /\ data \in Tables(<<"CEP">>, {NULL, "", "12345-678", "1234"}, MaxRows)
          /\ \E r \in PatternRules : rules_arg = PyList(<<r>>)
       \/ /\ \E a, b \in {0, 1, InvalidSampleLimit + 1}, nulls_first \in BOOLEAN :
                LET nulls == [i \in 1..a |-> <<NULL>>]
                    wrong == [i \in 1..b |-> <<"1234">>]
                IN data = DataFrame(<<"CEP">>, IF nulls_first THEN nulls \o wrong ELSE wrong \o nulls)
          /\ \E r \in PatternRules : rules_arg = PyList(<<r>>)

SpecPatterns == InitPatterns /\ [][NextValidator]_vars

----------------------------------------------------------------------------
(* SpecValidators: any of the four validators under any of the calls       *)
(* above.                                                                  *)

InitValidators == InitCompleteness \/ InitDuplicates \/ InitIntegrity \/ InitPatterns

SpecValidators == InitValidators /\ [][NextValidator]_vars

----------------------------------------------------------------------------
(* SpecConfigured: a Completeness, Duplicates or Patterns validator that   *)
(* was given one more rule by add_rule, well or badly configured, and was  *)
(* registered in an engine after a validator that returns one Result; the  *)
(* validator is called directly and through the engine on a table "orders" *)
(* of one column.                                                          *)

InitConfigured ==
    LET completeness == {ValidationRule("ratio", "ERROR", TRUE, [threshold |-> t]) :
                            t \in {PyNum(1, 2, "0.5"), PyNum(3, 2, "1.5"), PyNum(-1, 10, "-0.1")}}
        duplicates == {ValidationRule("unique", "WARNING", TRUE, q) :
                          q \in {[max_duplicates |-> PyInt(1)],
                                 [max_duplicates |-> PyInt(-1)],
                                 [max_duplicates |-> PyFloat("1.5")],
                                 [columns |-> <<"valor", "missing">>]}}
        patterns == {ValidationRule("format", "WARNING", TRUE, q) :
                        q \in {[pattern_type |-> "cep"],
                               [pattern_type |-> "ssn"],
                               [pattern_type |-> "regex"]}}
        first == Mock(1, "validator1", FALSE, "", <<MockResult("m1_a")>>)
    IN /\ \/ \E r \in completeness :
                /\ validator = add_rule(CompletenessValidator, r)
                /\ rules_arg \in {PyNone, PyList(<<r>>)}
          \/ \E r \in duplicates :
                /\ validator = add_rule(DuplicatesValidator(EmptyDict), r)
                /\ rules_arg \in {PyNone, PyList(<<r>>)}
          \/ \E r \in patterns :
                /\ validator = add_rule(PatternsValidator, r)
                /\ rules_arg \in {PyNone, PyList(<<r>>)}
          \/ \E fks \in {<<>>, <<[COLUMN_NAME |-> "valor", REFERENCED_TABLE_NAME |-> "other",
                                   REFERENCED_COLUMN_NAME |-> "id", CONSTRAINT_NAME |-> "fk_valor"]>>} :
                /\ validator = IntegrityValidator(
                                   Connector([t \in {"other"} |-> OneRefRow], [t \in {"orders"} |-> fks], FALSE),
                                   <<>>)
                /\ rules_arg \in {PyNone, PyList(<<>>)}
       /\ engine = register_validator(register_validator(<<>>, first), validator)
       /\ registered = <<first, validator>>
       /\ table_name = "orders"
       /\ \E rows \in {<<>>, <<<<"1">>>>, <<<<NULL>>, <<"1">>, <<"1">>>>} :
             data = DataFrame(<<"valor">>, rows)
       /\ args = NoCall
       /\ ran = <<>>
       /\ outcome = Return(<<>>)
       /\ orchestrator = None

\* rules = validator.get_rules(); rules.append(rule): the validator (and
\* with it the engine's entry, the same object) changes only when the list
\* returned is the validator's own
ModifyReturnedRules ==
    LET got == get_rules(validator)
        changed == IF got.own
                   THEN [validator EXCEPT !.rules = Append(got.items, ValidationRule("extra", "INFO", TRUE, EmptyDict))]
                   ELSE validator
    IN /\ validator' = changed
       /\ engine' = [i \in 1..Len(engine) |->
                        IF engine[i].value = validator THEN [engine[i] EXCEPT !.value = changed]
                        ELSE engine[i]]
       /\ args' = [op |-> "get_rules"]
       /\ ran' = <<>>
       /\ outcome' = Return(<<>>)
       /\ UNCHANGED <<registered, data, table_name, rules_arg, orchestrator>>

NextConfigured == ValidateTable \/ ValidateColumn \/ ValidateData \/ ModifyReturnedRules

SpecConfigured == InitConfigured /\ [][NextConfigured]_vars

----------------------------------------------------------------------------
(* SpecChecksums: _validate_cnpj and _validate_cpf on the text of a        *)
(* document number: the digits of a base followed by every pair of check   *)
(* digits (or one or three digits), written plain, with the CNPJ mask, with *)
(* the CPF mask, or with foreign characters around the digits.             *)

InitChecksums ==
    LET RECURSIVE Text(_, _, _)
        Text(digits, separators, i) ==
            IF i > Len(digits) THEN ""
            ELSE ToString(digits[i])
                 \o (IF i \in DOMAIN separators THEN separators[i] ELSE "")
                 \o Text(digits, separators, i + 1)
        bases == { <<1, 1, 4, 4, 4, 7, 7, 7, 0, 0, 0, 1>>, <<0, 0, 0, 0, 0, 0, 0, 0, 0, 0, 0, 0>>,
                   <<0, 0, 0, 0, 0, 0, 0, 2, 0, 0, 0, 1>>, <<1, 1, 1, 1, 1, 1, 1, 1, 1, 1, 1, 1>>,
                   <<1, 2, 3, 4, 5, 6, 7, 8, 9>>, <<1, 1, 1, 4, 4, 4, 7, 7, 7>>,
                   <<1, 1, 1, 1, 1, 1, 1, 1, 1>>, <<0, 0, 0, 0, 0, 0, 0, 0, 0>> }
        tails == [1..2 -> 0..9] \cup [1..1 -> 0..9] \cup {<<6, 1, 0>>, <<0, 9, 0>>}
        masks == { [prefix |-> "", separators |-> <<>>],
                   [prefix |-> "", separators |-> (2 :> "." @@ 5 :> "." @@ 8 :> "/" @@ 12 :> "-")],
                   [prefix |-> "", separators |-> (3 :> "." @@ 6 :> "." @@ 9 :> "-")],
                   [prefix |-> "n: ", separators |-> (4 :> " " @@ 8 :> " " @@ 14 :> "\n")] }
    IN /\ ValidatorInit
       /\ validator = NoValidator
       /\ table_name = ""
       /\ rules_arg = PyNone
       /\ \E base \in bases, tail \in tails, mask \in masks :
             data = [digits |-> base \o tail,
                     text |-> mask.prefix \o Text(base \o tail, mask.separators, 1)]

\* a call of PatternsValidator._validate_cnpj on the text
ValidateCnpj ==
    /\ args' = [op |-> "_validate_cnpj"]
    /\ outcome' = Return(<<validate_cnpj(data.text)>>)
    /\ UNCHANGED <<engine, registered, validator, data, table_name, rules_arg, ran, orchestrator>>

\* a call of PatternsValidator._validate_cpf on the text
ValidateCpf ==
    /\ args' = [op |-> "_validate_cpf"]
    /\ outcome' = Return(<<validate_cpf(data.text)>>)
    /\ UNCHANGED <<engine, registered, validator, data, table_name, rules_arg, ran, orchestrator>>

NextChecksums == ValidateCnpj \/ ValidateCpf

SpecChecksums == InitChecksums /\ [][NextChecksums]_vars

----------------------------------------------------------------------------
(* core/orchestrator.py: DataQualityOrchestrator.  The database the        *)
(* configuration names is an input: the step at which it raises (if any)   *)
(* and what test_connection answers; the analyzer may raise as well.  A    *)
(* connector is the list of the calls made on it; the table the database   *)
(* holds is `data`.  Of the dict analyze_table returns, the model keeps    *)
(* validation_results, or the text under "error".                          *)

DefaultSampleSize == 10000

\* DataQualityOrchestrator._register_validators, on the analyzer's engine
register_validators(dict, environ) ==
    register_validator(
        register_validator(
            register_validator(
                register_validator(dict, CompletenessValidator),
                DuplicatesValidator(environ)),
            IntegrityValidator(NoConnector, <<>>)),
        PatternsValidator)

\* DataQualityOrchestrator._connect_database: the orchestrator afterwards
\* and the bool returned
connect_database(self) ==
    LET db == self.db_config
        created(calls) == [self EXCEPT !.connector = [present |-> TRUE, calls |-> calls]]
    IN IF db.fails = "create_connector" THEN [self |-> self, ok |-> FALSE]
       ELSE IF db.fails = "connect" THEN [self |-> created(<<"connect">>), ok |-> FALSE]
       ELSE IF db.fails = "test_connection" \/ ~db.test_connection
       THEN [self |-> created(<<"connect", "test_connection">>), ok |-> FALSE]
       ELSE [self |-> created(<<"connect", "test_connection">>), ok |-> TRUE]

\* DataQualityOrchestrator.analyze_table; `sample` is the choice ORDER BY
\* RAND() LIMIT sample_size makes among the rows
analyze_table(self, dict, d, tname, sample_size, validator_names, sample) ==
    LET c == connect_database(self)
        db == self.db_config
        finally(calls) == [c.self EXCEPT !.connector.calls = @ \o calls \o <<"disconnect">>]
        error(text) == [raised |-> FALSE, error |-> text, results |-> <<>>]
        total_rows == Len(d.rows)
        loaded == IF total_rows > sample_size
                  THEN DataFrame(d.columns, [k \in 1..sample_size |-> d.rows[sample[k]]])
                  ELSE d
    IN IF ~c.ok
       THEN [self |-> c.self, ran |-> <<>>, outcome |-> error("Database connection failed")]
       ELSE IF db.fails = "get_table_count"
       THEN [self |-> finally(<<"get_table_count">>), ran |-> <<>>,
             outcome |-> error("Table '" \o tname \o "' doesn't exist")]
       ELSE IF db.fails = "execute_query"
       THEN [self |-> finally(<<"get_table_count", "execute_query">>), ran |-> <<>>,
             outcome |-> error("Lost connection to MySQL server during query")]
       ELSE IF self.analyzer.raises
       THEN [self |-> finally(<<"get_table_count", "execute_query">>), ran |-> <<>>,
             outcome |-> error("Analysis failed")]
       ELSE [self |-> finally(<<"get_table_count", "execute_query">>),
             ran |-> validators_to_run(dict, validator_names),
             outcome |-> validate_data(dict, loaded, tname, validator_names)]

\* a constructed orchestrator: the default validators are registered in the
\* engine of its analyzer and it has no connector yet
InitOrchestrator ==
    /\ \E environ \in {EmptyDict, [FORCE_UNIQUE_COLUMNS |-> "status"]} :
          engine = register_validators(<<>>, environ)
    /\ registered = Values(engine)
    /\ validator = NoValidator
    /\ data \in Tables(<<"id", "status">>, RefCells, MaxRefRows)
                \cup {DataFrame(<<"id", "status">>, <<<<"1", NULL>>, <<"2", "1">>>>)}
    /\ table_name = "categories"
    /\ rules_arg = PyNone
    /\ args = NoCall
    /\ ran = <<>>
    /\ outcome = Return(<<>>)
    /\ \E f \in {"", "create_connector", "connect", "test_connection", "get_table_count", "execute_query"},
          t \in BOOLEAN, a \in BOOLEAN :
          orchestrator = [db_config |-> [fails |-> f, test_connection |-> t],
                          analyzer |-> [raises |-> a],
                          connector |-> NoConnector]

\* a call of analyze_table(table_name, sample_size, validators)
AnalyzeTable ==
    \E sample_size \in {1, DefaultSampleSize},
       names \in {PyNone, PyList(<<"completeness">>), PyList(<<"integrity", "reports">>)} :
       \E sample \in {q \in [1..Smaller(sample_size, Len(data.rows)) -> 1..Len(data.rows)] :
                         \A i, j \in DOMAIN q : q[i] = q[j] => i = j} :
          \E r \in {analyze_table(orchestrator, engine, data, table_name, sample_size, names, sample)} :
          /\ orchestrator' = r.self
          /\ ran' = r.ran
          /\ outcome' = r.outcome
          /\ args' = [op |-> "analyze_table", sample_size |-> sample_size, validators |-> names]
          /\ UNCHANGED <<engine, registered, validator, data, table_name, rules_arg>>

SpecOrchestrator == InitOrchestrator /\ [][AnalyzeTable]_vars

----------------------------------------------------------------------------
(* Claims about the engine (specification Spec).                           *)

\* the names of the history, each once, in the order of first registration
RECURSIVE FirstSeen(_)
FirstSeen(h) ==
    IF h = <<>> THEN <<>>
    ELSE LET front == FirstSeen(SubSeq(h, 1, Len(h) - 1))
             n == h[Len(h)].name
         IN IF n \in Range(front) THEN front ELSE Append(front, n)

\* the validator most recently registered under name n (n was registered)
LastRegistered(h, n) ==
    h[CHOOSE i \in 1..Len(h) :
         /\ h[i].name = n
         /\ \A j \in (i + 1)..Len(h) : h[j].name # n]

\* what the claims expect the engine to run, from the history of registrations
ExpectedAll == [i \in 1..Len(FirstSeen(registered)) |-> LastRegistered(registered, FirstSeen(registered)[i])]

ExpectedNamed(names) ==
    LET known == SelectSeq(names, LAMBDA n : n \in Range(FirstSeen(registered)))
    IN [i \in 1..Len(known) |-> LastRegistered(registered, known[i])]

ExpectedRun(names) == IF Truthy(names) THEN ExpectedNamed(names.l) ELSE ExpectedAll

\* the single Result the claims expect from a validator that raised
SyntheticResult(v) ==
    [rule_name |-> v.name \o "_error", table_name |-> table_name,
     column_name |-> None, severity |-> "CRITICAL", passed |-> FALSE,
     message |-> "Validator " \o v.name \o " failed: " \o v.error,
     details |-> [error |-> v.error], affected_rows |-> 0, total_rows |-> 0]

Contribution(v) == IF v.raises THEN <<SyntheticResult(v)>> ELSE v.returns

Contributions(vs) == Flatten([i \in 1..Len(vs) |-> Contribution(vs[i])])

SomeRaises(vs) == \E i \in 1..Len(vs) : vs[i].raises

\* the validators of a run, rearranged into registration order
InRegistrationOrder(vs) == Flatten([i \in 1..Len(ExpectedAll) |-> SelectSeq(vs, LAMBDA v : v = ExpectedAll[i])])

\* C1 as stated: a validator that raises contributes exactly one synthetic
\* CRITICAL Result, the other selected validators contribute their full
\* lists, and the contributions appear in registration order.
C1_RegistrationOrder ==
    (args.op = "validate_data" /\ SomeRaises(ExpectedRun(args.validator_names))) =>
       outcome = Return(Contributions(InRegistrationOrder(ExpectedRun(args.validator_names))))

\* C1 amended: each run of a validator that raises contributes exactly one
\* synthetic CRITICAL Result (rule_name '<name>_error', passed false, column
\* null, details {error}, affected_rows 0, total_rows 0), every other run
\* contributes the validator's full list, and the contributions appear in the
\* order the validators are run: registration order when no names are given,
\* the order of the names otherwise.
C1_Isolation ==
    (args.op = "validate_data" /\ SomeRaises(ExpectedRun(args.validator_names))) =>
       outcome = Return(Contributions(ExpectedRun(args.validator_names)))

\* a run of all validators in which a failing validator precedes one that
\* returns two Results
C1_Witness ==
    /\ args.op = "validate_data"
    /\ ~Truthy(args.validator_names)
    /\ Len(ran) = 2 /\ ran[1].raises /\ ~ran[2].raises
    /\ Len(outcome.results) = 3
    /\ outcome.results[1].severity = "CRITICAL"

\* offset of the i-th run validator's Results in the output
RECURSIVE Offset(_, _)
Offset(vs, i) ==
    IF i = 1 THEN 0
    ELSE Offset(vs, i - 1) + (IF vs[i - 1].raises THEN 1 ELSE Len(vs[i - 1].returns))

\* C2: without names (omitted or empty) every registered validator is run
\* exactly once in registration order; with names, the named validators that
\* are registered are run in the order given and unknown names are skipped;
\* the output is the concatenation of the run validators' Results.
C2_Selection ==
    args.op = "validate_data" =>
       /\ ~Truthy(args.validator_names) =>
             /\ Len(ran) = Len(engine)
             /\ \A i \in 1..Len(engine) :
                   Cardinality({j \in 1..Len(ran) : ran[j] = engine[i].value}) = 1
             /\ [i \in 1..Len(ran) |-> ran[i].name] = FirstSeen(registered)
       /\ Truthy(args.validator_names) =>
             LET known == SelectSeq(args.validator_names.l, LAMBDA n : get_validator(engine, n) # PyNone)
             IN /\ [i \in 1..Len(ran) |-> ran[i].name] = known
                /\ \A i \in 1..Len(ran) : PyList(<<ran[i]>>) = get_validator(engine, ran[i].name)
       /\ ~outcome.raised
       /\ Len(outcome.results) = Offset(ran, Len(ran) + 1)
       /\ \A i \in 1..Len(ran) :
             ~ran[i].raises =>
                SubSeq(outcome.results, Offset(ran, i) + 1, Offset(ran, i + 1)) = ran[i].returns

\* names given in the reverse of the registration order, with an unknown name
\* between them, and both registered validators returned Results
C2_Witness ==
    /\ args.op = "validate_data"
    /\ args.validator_names = PyList(<<"validator2", "unknown", "validator1">>)
    /\ Len(engine) = 2 /\ engine[1].key = "validator1" /\ engine[2].key = "validator2"
    /\ Len(ran) = 2
    /\ Len(outcome.results) = 3

\* C3: the engine holds one validator per distinct name, get_validator returns
\* the validator most recently registered under the name (None when never
\* registered), and a run of all validators follows the order in which the
\* names were first registered.
C3_Registry ==
    /\ Len(engine) = Cardinality({registered[i].name : i \in 1..Len(registered)})
    /\ \A i, j \in 1..Len(engine) : engine[i].key = engine[j].key => i = j
    /\ \A n \in ValidatorNames :
          get_validator(engine, n) =
             IF n \in Range(FirstSeen(registered))
             THEN PyList(<<LastRegistered(registered, n)>>)
             ELSE PyNone
    /\ validators_to_run(engine, PyNone) = ExpectedAll
    /\ (args.op = "validate_data" /\ ~Truthy(args.validator_names)) => ran = ExpectedAll

\* a name registered first was registered again after another name, and all
\* validators were run
C3_Witness ==
    /\ Len(registered) = 3
    /\ registered[1].name = registered[3].name
    /\ registered[1] # registered[3]
    /\ registered[2].name # registered[1].name
    /\ args.op = "validate_data" /\ ~Truthy(args.validator_names)
    /\ ran = <<registered[3], registered[2]>>

----------------------------------------------------------------------------
(* Claims about the IntegrityValidator (specification SpecIntegrity).      *)

\* the rules given to the call, else those registered on the validator
ExplicitRules == IF rules_arg.t = "none" THEN validator.rules ELSE rules_arg.l

EnabledRules == SelectSeq(ExplicitRules, LAMBDA r : r.enabled)

\* a validate_table call on explicit rules has returned
TableCallOnRules ==
    /\ args.op = "validate_table"
    /\ ExplicitRules # <<>>
    /\ ~outcome.raised
    /\ Len(outcome.results) = Len(EnabledRules)

\* a Result that carries the counts of an evaluated foreign-key rule
IsEvaluated(r) == "total_references" \in DOMAIN r.details

\* the foreign-key value of row i of the data under rule
KeyOf(rule, i) ==
    LET fk == AsList(rule.parameters.foreign_key)
    IN [k \in 1..Len(fk) |-> data.rows[i][ColIndex(data, fk[k])]]

HasNull(key) == \E k \in 1..Len(key) : key[k] = NULL

NullRows(rule) == {i \in 1..Len(data.rows) : HasNull(KeyOf(rule, i))}

\* C5: in every Result of an evaluated foreign-key rule, valid + invalid ==
\* total == number of rows, affected_rows == invalid == orphaned + null
\* violations, and passed holds exactly when that count is zero.
C5_Counts ==
    (args.op = "validate_table" /\ ~outcome.raised) =>
       \A k \in 1..Len(outcome.results) :
          LET r == outcome.results[k] IN
          IsEvaluated(r) =>
             /\ r.details.valid_references + r.details.invalid_references = r.details.total_references
             /\ r.details.total_references = Len(data.rows)
             /\ r.affected_rows = r.details.invalid_references
             /\ r.details.invalid_references = r.details.orphaned_records + r.details.null_violations
             /\ r.passed <=> (r.affected_rows = 0)

\* a Result with an orphaned record and a null violation
C5_Witness ==
    /\ args.op = "validate_table"
    /\ \E k \in 1..Len(outcome.results) :
          /\ IsEvaluated(outcome.results[k])
          /\ outcome.results[k].details.orphaned_records = 1
          /\ outcome.results[k].details.null_violations = 1
          /\ outcome.results[k].affected_rows = 2

\* C6: a null foreign-key value (any component null for a composite key) is
\* valid when allow_nulls is true and a null violation when it is false,
\* whatever the reference data holds; it is never an orphaned record.
C6_Nulls ==
    TableCallOnRules =>
       \A k \in 1..Len(outcome.results) :
          LET r == outcome.results[k]
              rule == EnabledRules[k]
              nulls == Cardinality(NullRows(rule))
              allow == Get(rule.parameters, "allow_nulls", TRUE)
          IN IsEvaluated(r) =>
                /\ r.details.null_count = nulls
                /\ r.details.null_violations = (IF allow THEN 0 ELSE nulls)
                /\ r.details.orphaned_records <= Len(data.rows) - nulls
                /\ allow => r.details.valid_references >= nulls
                /\ \A j \in 1..Len(r.details.orphaned_values) :
                      \A i \in NullRows(rule) :
                         r.details.orphaned_values[j] # CleanValue(AsList(rule.parameters.foreign_key), KeyOf(rule, i))

\* a composite key with one null component that the reference data holds as
\* it is, under allow_nulls = false: a null violation and no orphan
C6_Witness ==
    /\ TableCallOnRules
    /\ Len(EnabledRules) = 1
    /\ IsEvaluated(outcome.results[1])
    /\ EnabledRules[1].parameters.foreign_key = PyList(<<"id", "parent_id">>)
    /\ Get(EnabledRules[1].parameters, "allow_nulls", TRUE) = FALSE
    /\ data.rows = <<<<"1", NULL>>>>
    /\ "reference_data" \in DOMAIN EnabledRules[1].parameters
    /\ EnabledRules[1].parameters.reference_data.rows = <<<<"1", NULL>>>>
    /\ IsEvaluated(outcome.results[1])
    /\ outcome.results[1].details.null_violations = 1
    /\ outcome.results[1].details.orphaned_records = 0

\* rule is a self reference: allow_self_reference on the validated table
SelfReference(rule) ==
    /\ Get(rule.parameters, "allow_self_reference", FALSE)
    /\ Get(rule.parameters, "reference_table", None) = table_name

\* rows whose non-null key equals a key of the referenced columns of the
\* validated table itself
OwnKeyRows(rule) ==
    LET rc == AsList(rule.parameters.reference_column)
        own == {[k \in 1..Len(rc) |-> data.rows[i][ColIndex(data, rc[k])]] : i \in 1..Len(data.rows)}
    IN {i \in 1..Len(data.rows) : ~HasNull(KeyOf(rule, i)) /\ KeyOf(rule, i) \in own}

\* C7: under a self reference, a non-null foreign-key value that equals a
\* value of the referenced column(s) of the validated table is a valid
\* reference, even when the supplied reference data lacks it.
C7_SelfReference ==
    TableCallOnRules =>
       \A k \in 1..Len(outcome.results) :
          LET r == outcome.results[k]
              rule == EnabledRules[k]
          IN (IsEvaluated(r) /\ SelfReference(rule)) =>
                /\ r.details.orphaned_records <=
                      Len(data.rows) - Cardinality(NullRows(rule)) - Cardinality(OwnKeyRows(rule))
                /\ \A i \in OwnKeyRows(rule) :
                      \A j \in 1..Len(r.details.orphaned_values) :
                         r.details.orphaned_values[j] # CleanValue(AsList(rule.parameters.foreign_key), KeyOf(rule, i))

\* parent_id "2" is an id of the table and not of the reference data, and
\* the self-referencing rule passes
C7_Witness ==
    /\ TableCallOnRules
    /\ Len(EnabledRules) = 1
    /\ IsEvaluated(outcome.results[1])
    /\ SelfReference(EnabledRules[1])
    /\ EnabledRules[1].parameters.foreign_key = PyStr("parent_id")
    /\ "reference_data" \in DOMAIN EnabledRules[1].parameters
    /\ data.rows = <<<<"1", "2">>, <<"2", "1">>>>
    /\ EnabledRules[1].parameters.reference_data.rows = <<<<"1", "1">>>>
    /\ IsEvaluated(outcome.results[1])
    /\ outcome.results[1].passed

\* the causes the claim lists for a rule that cannot be evaluated
Unevaluable(rule) ==
    LET p == rule.parameters
        fk == Get(p, "foreign_key", PyNone)
        rc == Get(p, "reference_column", PyNone)
    IN \/ ~Truthy(fk)
       \/ Get(p, "reference_table", None) \in {None, ""}
       \/ ~Truthy(rc)
       \/ ("reference_data" \notin DOMAIN p /\ "connector" \notin DOMAIN p)
       \/ Len(AsList(fk)) # Len(AsList(rc))
       \/ \E c \in Range(AsList(fk)) : c \notin Range(data.columns)
       \/ ("reference_data" \in DOMAIN p /\ \E c \in Range(AsList(rc)) : c \notin Range(p.reference_data.columns))

\* C8: validate_table never raises because of a rule; each enabled rule
\* yields exactly one Result, in rule order; a rule that cannot be evaluated
\* yields passed=false, affected_rows 0 and details.error, and the rules after
\* it are still evaluated.
C8_PerRuleIsolation ==
    args.op = "validate_table" =>
       /\ ~outcome.raised
       /\ ExplicitRules # <<>> =>
             /\ Len(outcome.results) = Len(EnabledRules)
             /\ \A k \in 1..Len(EnabledRules) :
                   LET r == outcome.results[k] IN
                   /\ r.rule_name = EnabledRules[k].name
                   /\ r.column_name = None
                   /\ IsEvaluated(r) \/ "error" \in DOMAIN r.details
                   /\ Unevaluable(EnabledRules[k]) =>
                         /\ ~r.passed
                         /\ r.affected_rows = 0
                         /\ "error" \in DOMAIN r.details

\* a rule without reference data and connector is followed by a rule that
\* is evaluated
C8_Witness ==
    /\ args.op = "validate_table"
    /\ Len(EnabledRules) = 2
    /\ EnabledRules[1].name = "no_ref_data"
    /\ Len(outcome.results) = 2
    /\ outcome.results[1].details = [error |-> "'NoneType' object has no attribute 'columns'"]
    /\ IsEvaluated(outcome.results[2])
    /\ outcome.results[2].affected_rows = 1

----------------------------------------------------------------------------
(* Claims about the DuplicatesValidator (specification SpecDuplicates).    *)

IsComposite(rule) == "columns" \in DOMAIN rule.parameters
SingleColumnRules == SelectSeq(ExplicitRules, LAMBDA r : r.enabled /\ ~IsComposite(r))
CompositeKeyRules == SelectSeq(ExplicitRules, LAMBDA r : r.enabled /\ IsComposite(r))
DuplicatesReturned ==
    /\ validator.kind = "duplicates"
    /\ args.op \in {"validate_table", "validate_column"}
    /\ ~outcome.raised

ColumnResults == SelectSeq(outcome.results, LAMBDA r : r.column_name # None)
CompositeResults == SelectSeq(outcome.results, LAMBDA r : r.column_name = None)

\* the columns the call validated: those it returned a Result for
ValidatedColumns ==
    SelectSeq(data.columns, LAMBDA c : \E i \in 1..Len(ColumnResults) : ColumnResults[i].column_name = c)

IgnoresNulls(rule) == Get(rule.parameters, "ignore_nulls", TRUE)
MaxDuplicatesOf(rule) == Get(rule.parameters, "max_duplicates", PyInt(0)).v

NonNullCount(cells) == Cardinality({k \in 1..Len(cells) : cells[k] # NULL})
TotalCount(cells, rule) == IF IgnoresNulls(rule) THEN NonNullCount(cells) ELSE Len(cells)
UniqueCount(cells, rule) ==
    IF IgnoresNulls(rule) THEN Cardinality(Range(cells) \ {NULL}) ELSE Cardinality(Range(cells))

\* what C9 states of the Result res of a single-column rule on a column
SingleColumnResult(res, rule, column_name) ==
    LET cells == [k \in 1..Len(data.rows) |-> data.rows[k][ColIndex(data, column_name)]] IN
    /\ res.rule_name = rule.name
    /\ res.column_name = column_name
    /\ res.details.unique_count + res.details.duplicate_count = TotalCount(cells, rule)
    /\ res.details.unique_count = UniqueCount(cells, rule)
    /\ res.affected_rows = res.details.duplicate_count
    /\ res.passed <=> (res.details.duplicate_count <= MaxDuplicatesOf(rule))

\* C9: for every column that DuplicatesValidator validates and every enabled
\* single-column rule there is a Result with unique_count + duplicate_count
\* equal to total_count (the non-null rows when ignore_nulls, else all rows
\* with the nulls counting as one shared value), affected_rows equal to
\* duplicate_count, and passed exactly when duplicate_count <= max_duplicates.
C9_SingleColumn ==
    DuplicatesReturned =>
        /\ Len(ColumnResults) = Len(SingleColumnRules) * Len(ValidatedColumns)
        /\ \A i \in 1..Len(SingleColumnRules), j \in 1..Len(ValidatedColumns) :
              SingleColumnResult(ColumnResults[(i - 1) * Len(ValidatedColumns) + j],
                                 SingleColumnRules[i], ValidatedColumns[j])

\* a column with a null and a repeated value was validated by a rule that
\* ignores nulls and failed it, the null not counting as a duplicate
C9_Witness ==
    /\ DuplicatesReturned
    /\ \E i \in 1..Len(ColumnResults) :
          /\ ColumnResults[i].details.ignore_nulls
          /\ ColumnResults[i].details.non_null_rows < ColumnResults[i].details.total_rows
          /\ ColumnResults[i].details.duplicate_count > 0
          /\ ColumnResults[i].affected_rows < ColumnResults[i].total_rows - 1
          /\ ~ColumnResults[i].passed

KeyHasNull(row, columns) == \E c \in Range(columns) : row[ColIndex(data, c)] = NULL
KeysCounted(rule) ==
    {k \in 1..Len(data.rows) : ~(IgnoresNulls(rule) /\ KeyHasNull(data.rows[k], rule.parameters.columns))}
KeyAt(k, columns) == [c \in 1..Len(columns) |-> data.rows[k][ColIndex(data, columns[c])]]

\* C10: in composite-key mode the table call returns exactly one Result per
\* rule, with column_name null and unique_combinations +
\* duplicate_combinations = total_combinations; with ignore_nulls the rows
\* with a null in any key column are excluded from total_combinations; passed
\* holds exactly when duplicate_combinations <= max_duplicates.
C10_CompositeKey ==
    (DuplicatesReturned /\ args.op = "validate_table") =>
        /\ Len(CompositeResults) = Len(CompositeKeyRules)
        /\ \A i \in 1..Len(CompositeKeyRules) :
              LET res == CompositeResults[i]
                  rule == CompositeKeyRules[i]
              IN /\ res.rule_name = rule.name
                 /\ res.column_name = None
                 /\ res.details.unique_combinations + res.details.duplicate_combinations
                       = res.details.total_combinations
                 /\ res.details.total_combinations = Cardinality(KeysCounted(rule))
                 /\ res.details.unique_combinations
                       = Cardinality({KeyAt(k, rule.parameters.columns) : k \in KeysCounted(rule)})
                 /\ res.passed <=> (res.details.duplicate_combinations <= MaxDuplicatesOf(rule))

\* a composite rule that ignores nulls was evaluated on a table with a null
\* in a key column, next to a second composite or single-column rule
C10_Witness ==
    /\ DuplicatesReturned
    /\ args.op = "validate_table"
    /\ Len(outcome.results) > 1
    /\ \E i \in 1..Len(CompositeResults) :
          /\ CompositeResults[i].details.ignore_nulls
          /\ CompositeResults[i].details.total_combinations < CompositeResults[i].total_rows
          /\ CompositeResults[i].details.total_combinations > 0

\* a call of the DuplicatesValidator, raising or not
DuplicatesCalled ==
    /\ validator.kind = "duplicates"
    /\ args.op \in {"validate_table", "validate_column"}

\* an enabled rule whose max_duplicates is a negative integer
NegativeMaxDuplicates(rule) ==
    /\ rule.enabled
    /\ "max_duplicates" \in DOMAIN rule.parameters
    /\ rule.parameters.max_duplicates.t = "int"
    /\ rule.parameters.max_duplicates.v < 0

\* the mode the call runs the rule in: single-column mode for a rule without
\* columns (column and table calls), composite-key mode for a rule with
\* columns (table calls only)
RunsRule(rule) == IsComposite(rule) => args.op = "validate_table"

\* C11 as stated: DuplicatesValidator raises, instead of returning Results,
\* whenever it is called with an enabled rule whose max_duplicates is
\* negative, for every column name and content in single-column mode and for
\* every key in composite-key mode.
C11_AlwaysRaises ==
    DuplicatesCalled =>
        \A k \in 1..Len(ExplicitRules) :
            (NegativeMaxDuplicates(ExplicitRules[k]) /\ RunsRule(ExplicitRules[k])) => outcome.raised

\* the columns the call looks at that the skip heuristic lets through
ColumnsOfCall == IF args.op = "validate_column" THEN <<args.column_name>> ELSE data.columns
UnskippedColumns ==
    SelectSeq(ColumnsOfCall, LAMBDA c : ~should_skip_column_for_duplicates(validator, c))

\* C11, amended: the call raises whenever it is given an enabled rule with a
\* negative max_duplicates and reaches it: in composite-key mode for every
\* key, in single-column mode when a column of the call is not skipped by the
\* heuristic, whatever the column holds; a column call on a skipped column
\* returns no Result and raises nothing, whatever the rules.
C11_RaisesWhenReached ==
    DuplicatesCalled =>
        /\ \A k \in 1..Len(ExplicitRules) :
              LET rule == ExplicitRules[k] IN
              (NegativeMaxDuplicates(rule) /\ RunsRule(rule)
                 /\ (IsComposite(rule) \/ UnskippedColumns # <<>>)) => outcome.raised
        /\ (args.op = "validate_column" /\ UnskippedColumns = <<>>) => outcome = Return(<<>>)

\* a single-column rule with max_duplicates -1 made the table call raise on
\* the one column that is not skipped, a null-only or repeated column included
C11_Witness ==
    /\ DuplicatesCalled
    /\ args.op = "validate_table"
    /\ Len(ExplicitRules) = 1
    /\ NegativeMaxDuplicates(ExplicitRules[1])
    /\ ~IsComposite(ExplicitRules[1])
    /\ Len(UnskippedColumns) = 1
    /\ Len(data.rows) > 1
    /\ outcome = Raise("Rule '" \o ExplicitRules[1].name \o "': max_duplicates must be >= 0, got -1")

\* the decision C12 states for a column, from the validator's two column
\* sets and two pattern lists
MatchesSome(patterns, column_name) ==
    \E i \in 1..Len(patterns) : Contains(patterns[i], Lower(column_name))
SkipDecision(column_name) ==
    CASE column_name \in validator.force_unique_columns -> "validate"
      [] column_name \in validator.allow_duplicate_columns -> "skip"
      [] MatchesSome(validator.unique_patterns, column_name) -> "validate"
      [] MatchesSome(validator.skip_patterns, column_name) -> "skip"
      [] OTHER -> "validate"

\* C12: DuplicatesValidator skips a column by the first rule that applies:
\* in the force-unique set -> validate; in the allow-duplicates set -> skip;
\* lowercased name contains a must-be-unique pattern -> validate; contains a
\* duplicates-expected pattern -> skip; otherwise validate.  A skipped column
\* yields no Result in single-column mode (and a column call on it never
\* raises), a column that is not skipped yields Results or an error, and a
\* composite-key rule yields its Result whatever the heuristic says of its
\* columns.
C12_SkipPriority ==
    DuplicatesCalled =>
        /\ (args.op = "validate_column" /\ SingleColumnRules # <<>>) =>
              (outcome = Return(<<>>) <=> SkipDecision(args.column_name) = "skip")
        /\ ~outcome.raised =>
              /\ \A i \in 1..Len(ColumnResults) : SkipDecision(ColumnResults[i].column_name) = "validate"
              /\ (args.op = "validate_table" /\ SingleColumnRules # <<>>) =>
                    ValidatedColumns = SelectSeq(data.columns, LAMBDA c : SkipDecision(c) = "validate")
              /\ args.op = "validate_table" =>
                    /\ Len(CompositeResults) = Len(CompositeKeyRules)
                    /\ \A i \in 1..Len(CompositeKeyRules) :
                          /\ CompositeResults[i].details.composite_key_columns
                                = CompositeKeyRules[i].parameters.columns
                          /\ CompositeResults[i].details.total_combinations
                                = Cardinality(KeysCounted(CompositeKeyRules[i]))

\* a table call with a single-column rule skipped Codigo_Status, which is in
\* the allow-duplicates set though its name contains a must-be-unique
\* pattern, and validated valor, which is in both sets
C12_Witness ==
    /\ DuplicatesCalled
    /\ args.op = "validate_table"
    /\ ~outcome.raised
    /\ SingleColumnRules # <<>>
    /\ data.columns = <<"Codigo_Status", "valor">>
    /\ {"Codigo_Status", "valor"} \subseteq validator.allow_duplicate_columns
    /\ "valor" \in validator.force_unique_columns
    /\ MatchesSome(validator.unique_patterns, "Codigo_Status")
    /\ ValidatedColumns = <<"valor">>
    /\ Len(data.rows) > 0

----------------------------------------------------------------------------
(* Claims about the CompletenessValidator (specification                   *)
(* SpecCompleteness).  Fractions are compared exactly.                     *)

CompletenessCalled ==
    /\ validator.kind = "completeness"
    /\ args.op \in {"validate_table", "validate_column"}

ThresholdOf(rule) == Get(rule.parameters, "threshold", PyNum(1, 1, "1.0"))
ThresholdInRange(rule) ==
    0 <= ThresholdOf(rule).num /\ ThresholdOf(rule).num <= ThresholdOf(rule).den

CellsOf(column_name) == [k \in 1..Len(data.rows) |-> data.rows[k][ColIndex(data, column_name)]]
NullCount(column_name) ==
    Cardinality({k \in 1..Len(data.rows) : CellsOf(column_name)[k] = NULL})

\* what C13 states of the Result res of a rule on a column
CompletenessResult(res, rule, column_name) ==
    LET total == Len(data.rows)
        null == NullCount(column_name)
        threshold == ThresholdOf(rule)
    IN /\ res.rule_name = rule.name
       /\ res.column_name = column_name
       /\ res.total_rows = total
       /\ res.affected_rows = null
       /\ IF total = 0
          THEN pass_rate(res).num = 100 * pass_rate(res).den
          ELSE pass_rate(res).num * total = 100 * (total - null) * pass_rate(res).den
       /\ res.passed <=> IF total = 0
                         THEN threshold.den >= threshold.num
                         ELSE (total - null) * threshold.den >= threshold.num * total

\* C13: for every column and every enabled rule with threshold in [0, 1],
\* validate_column of the CompletenessValidator returns a Result with
\* total_rows the number of rows, affected_rows the number of nulls,
\* pass_rate = 100 * (total - null) / total (100 when total is 0) and passed
\* exactly when non_null / total >= threshold (the ratio being 1 when total
\* is 0).
C13_ColumnCompleteness ==
    (/\ CompletenessCalled
     /\ args.op = "validate_column"
     /\ \A k \in 1..Len(EnabledRules) : ThresholdInRange(EnabledRules[k]))
    => /\ ~outcome.raised
       /\ Len(outcome.results) = Len(EnabledRules)
       /\ \A k \in 1..Len(EnabledRules) :
             CompletenessResult(outcome.results[k], EnabledRules[k], args.column_name)

\* a column of two rows, one of them null, passed a rule of threshold 0.5
\* (the ratio equal to the threshold) and failed a rule of threshold 1.0
C13_Witness ==
    /\ CompletenessCalled
    /\ args.op = "validate_column"
    /\ ~outcome.raised
    /\ Len(outcome.results) = 2
    /\ outcome.results[1].passed
    /\ ~outcome.results[2].passed
    /\ outcome.results[1].affected_rows = 1
    /\ outcome.results[1].total_rows = 2
    /\ pass_rate(outcome.results[1]) = [num |-> 100, den |-> 2]
    /\ ThresholdOf(EnabledRules[1]) = PyNum(1, 2, "0.5")

\* the enabled rules of the call whose threshold is outside [0, 1]
RejectedRules == SelectSeq(EnabledRules, LAMBDA r : ~ThresholdInRange(r))

\* C14 as stated: the CompletenessValidator raises, instead of returning
\* Results, whenever validate_column or validate_table is called with a rule
\* whose threshold is outside [0.0, 1.0], for every table and column content.
C14_AlwaysRaises ==
    CompletenessCalled =>
        ((\E k \in 1..Len(ExplicitRules) : ~ThresholdInRange(ExplicitRules[k])) => outcome.raised)

\* C14, amended: the call raises exactly when it is given an enabled rule
\* whose threshold is outside [0, 1] and evaluates it, which validate_column
\* does for every column content and validate_table for every table that has
\* a column; the error names the first such rule.  A disabled rule is never
\* checked, and a table without columns yields an empty list.
C14_RaisesWhenEvaluated ==
    CompletenessCalled =>
        IF RejectedRules # <<>> /\ (args.op = "validate_column" \/ data.columns # <<>>)
        THEN outcome = Raise("Rule '" \o RejectedRules[1].name
                             \o "': threshold must be between 0.0 and 1.0, got "
                             \o ThresholdOf(RejectedRules[1]).repr)
        ELSE ~outcome.raised

\* a table call on a table of two rows raised on the threshold -0.1 of its
\* second rule, after a first rule that is in range
C14_Witness ==
    /\ CompletenessCalled
    /\ args.op = "validate_table"
    /\ Len(data.rows) = 2
    /\ Len(EnabledRules) = 2
    /\ ThresholdInRange(EnabledRules[1])
    /\ outcome = Raise("Rule 'negative': threshold must be between 0.0 and 1.0, got -0.1")

\* C15: validate_table of the CompletenessValidator returns exactly one
\* Result per (column, enabled rule) pair, the columns in table order and
\* within a column the rules in insertion order, and no Result for a disabled
\* rule.
C15_PerColumnAndRule ==
    (CompletenessCalled /\ args.op = "validate_table" /\ RejectedRules = <<>>)
    => /\ ~outcome.raised
       /\ Len(outcome.results) = Len(data.columns) * Len(EnabledRules)
       /\ \A j \in 1..Len(data.columns), k \in 1..Len(EnabledRules) :
             CompletenessResult(outcome.results[(j - 1) * Len(EnabledRules) + k],
                                EnabledRules[k], data.columns[j])

\* a table of two columns was validated by two different enabled rules: four
\* Results, the two of the first column first
C15_Witness ==
    /\ CompletenessCalled
    /\ args.op = "validate_table"
    /\ ~outcome.raised
    /\ Len(data.columns) = 2
    /\ Len(data.rows) > 0
    /\ Len(EnabledRules) = 2
    /\ EnabledRules[1].name # EnabledRules[2].name
    /\ Len(outcome.results) = 4
    /\ outcome.results[2].column_name = data.columns[1]
    /\ outcome.results[2].rule_name = EnabledRules[2].name
    /\ outcome.results[3].column_name = data.columns[2]
    /\ outcome.results[3].rule_name = EnabledRules[1].name

----------------------------------------------------------------------------
(* Claims about the four validators (specification SpecValidators).        *)

ValidatorReturned ==
    /\ args.op \in {"validate_table", "validate_column"}
    /\ ~outcome.raised

NameAndSeverity(rule) == [name |-> rule.name, severity |-> rule.severity]
Carried(result) == [name |-> result.rule_name, severity |-> result.severity]

\* the Rules supplied to the call or registered on the validator
SuppliedOrRegistered ==
    (IF rules_arg.t = "list" THEN Range(rules_arg.l) ELSE {}) \cup Range(validator.rules)

\* C4 as stated: every Result returned by validate_table or validate_column of
\* the four validators carries the name and the severity of a Rule supplied to
\* the call or registered on the validator.
C4_SuppliedOrRegistered ==
    ValidatorReturned =>
        \A i \in 1..Len(outcome.results) :
            \E rule \in SuppliedOrRegistered : Carried(outcome.results[i]) = NameAndSeverity(rule)

\* the Rules the IntegrityValidator makes up itself: the unsupported_operation
\* rule of validate_column, and in validate_table one auto_fk_<constraint>
\* rule per foreign key the connector reports for the table
Synthesized ==
    IF validator.kind # "integrity" THEN {}
    ELSE IF args.op = "validate_column"
    THEN {[name |-> "unsupported_operation", severity |-> "ERROR"]}
    ELSE IF validator.connector.present /\ table_name \in DOMAIN validator.connector.foreign_keys
    THEN {[name |-> "auto_fk_" \o fk.CONSTRAINT_NAME, severity |-> "ERROR"] :
             fk \in Range(validator.connector.foreign_keys[table_name])}
    ELSE {}

\* C4, amended: every Result returned by validate_table or validate_column of
\* the four validators carries the name and the severity of one Rule: an
\* enabled Rule among those supplied to the call (or, when none is supplied,
\* registered on the validator), or a Rule the IntegrityValidator synthesized
\* itself (unsupported_operation on validate_column, auto_fk_<constraint> on
\* auto-discovery), both of severity ERROR.
C4_RuleProvenance ==
    ValidatorReturned =>
        \A i \in 1..Len(outcome.results) :
            \/ \E k \in 1..Len(EnabledRules) :
                  Carried(outcome.results[i]) = NameAndSeverity(EnabledRules[k])
            \/ Carried(outcome.results[i]) \in Synthesized

\* the IntegrityValidator, given a rule of another severity, answered a column
\* call with the Result of its own unsupported_operation rule
C4_Witness ==
    /\ ValidatorReturned
    /\ validator.kind = "integrity"
    /\ args.op = "validate_column"
    /\ EnabledRules # <<>>
    /\ \A k \in 1..Len(EnabledRules) : EnabledRules[k].severity # "ERROR"
    /\ Len(outcome.results) = 1
    /\ Carried(outcome.results[1]) = [name |-> "unsupported_operation", severity |-> "ERROR"]
    /\ ~outcome.results[1].passed

----------------------------------------------------------------------------
(* Claims about configuration errors (specification SpecConfigured).       *)

\* the enabled rule has a bad or missing parameter that call op of validator
\* v detects on a table whose columns are validated: a threshold outside
\* [0, 1]; a max_duplicates that is not a non-negative integer or, in a
\* table call, a composite key with a missing column; a pattern_type outside
\* the catalogue or 'regex' without regex_pattern
ConfigurationError(v, rule, op) ==
    /\ rule.enabled
    /\ CASE v.kind = "completeness" -> ~ThresholdInRange(rule)
         [] v.kind = "duplicates" ->
              LET max_duplicates == Get(rule.parameters, "max_duplicates", PyInt(0))
                  bad == max_duplicates.t # "int" \/ max_duplicates.v < 0
              IN IF IsComposite(rule)
                 THEN /\ op = "validate_table"
                      /\ bad \/ \E c \in Range(rule.parameters.columns) : ~HasColumn(data, c)
                 ELSE bad
         [] v.kind = "patterns" ->
              LET pattern_type == Get(rule.parameters, "pattern_type", "auto_detect") IN
              \/ pattern_type = "regex" /\ "regex_pattern" \notin DOMAIN rule.parameters
              \/ pattern_type \notin DOMAIN Patterns \cup {"auto_detect", "regex"}
         [] OTHER -> FALSE

DirectCall(kinds) ==
    /\ args.op \in {"validate_table", "validate_column"}
    /\ validator.kind \in kinds

\* the engine ran the validator among those it ran
RanInEngine(kinds) ==
    /\ args.op = "validate_data"
    /\ validator.kind \in kinds
    /\ \E i \in 1..Len(ran) : ran[i].kind = validator.kind

CallErrors == SelectSeq(EnabledRules, LAMBDA r : ConfigurationError(validator, r, args.op))
RegisteredErrors ==
    SelectSeq(validator.rules, LAMBDA r : ConfigurationError(validator, r, "validate_table"))

\* the Results the engine returned for the validator's table
OwnResults == SelectSeq(outcome.results, LAMBDA r : r.table_name = table_name)

OneCriticalResult ==
    /\ Len(OwnResults) = 1
    /\ OwnResults[1].rule_name = validator.name \o "_error"
    /\ OwnResults[1].severity = "CRITICAL"
    /\ ~OwnResults[1].passed
    /\ OwnResults[1].column_name = None

\* C16 as stated: a configuration error in a rule detected by the
\* Completeness, Duplicates or Patterns validator propagates out of
\* validate_column and validate_table as a raised error, and inside the
\* engine it becomes exactly one CRITICAL Result for that validator.
C16_Propagates ==
    /\ (DirectCall({"completeness", "duplicates", "patterns"}) /\ CallErrors # <<>>)
          => outcome.raised
    /\ (RanInEngine({"completeness", "duplicates", "patterns"}) /\ RegisteredErrors # <<>>)
          => OneCriticalResult

\* C16, amended: a configuration error detected by the Completeness or the
\* Duplicates validator propagates out of validate_column and validate_table
\* as a raised error, and inside the engine becomes exactly one CRITICAL
\* Result named <validator>_error.  The Patterns validator never raises it:
\* the rule yields, per column, one failed Result of the rule's own name and
\* severity with details.error, next to the Results of the other rules, and
\* the engine passes these Results on without any CRITICAL error Result.
C16_ErrorsByValidator ==
    /\ (DirectCall({"completeness", "duplicates"}) /\ CallErrors # <<>>) => outcome.raised
    /\ (RanInEngine({"completeness", "duplicates"}) /\ RegisteredErrors # <<>>)
          => OneCriticalResult
    /\ DirectCall({"patterns"}) =>
          /\ ~outcome.raised
          /\ Len(outcome.results) = Len(ColumnsOfCall) * Len(EnabledRules)
          /\ \A j \in 1..Len(ColumnsOfCall), k \in 1..Len(EnabledRules) :
                LET res == outcome.results[(j - 1) * Len(EnabledRules) + k] IN
                /\ res.rule_name = EnabledRules[k].name
                /\ res.severity = EnabledRules[k].severity
                /\ ConfigurationError(validator, EnabledRules[k], args.op) =>
                      (~res.passed /\ DOMAIN res.details = {"error"})
    /\ RanInEngine({"patterns"}) =>
          /\ Len(OwnResults) = Len(data.columns) * Len(SelectSeq(validator.rules, LAMBDA r : r.enabled))
          /\ \A i \in 1..Len(OwnResults) :
                /\ OwnResults[i].rule_name # "patterns_error"
                /\ \E k \in 1..Len(validator.rules) :
                      Carried(OwnResults[i]) = NameAndSeverity(validator.rules[k])

\* the engine ran a DuplicatesValidator whose added rule has max_duplicates
\* -1 after a validator that returned one Result: that Result, then one
\* CRITICAL duplicates_error Result carrying the message of the ValueError
C16_Witness ==
    /\ RanInEngine({"duplicates"})
    /\ Len(ran) = 2
    /\ Len(data.rows) = 3
    /\ Len(outcome.results) = 2
    /\ outcome.results[2].rule_name = "duplicates_error"
    /\ outcome.results[2].severity = "CRITICAL"
    /\ outcome.results[2].details
          = [error |-> "Rule 'unique': max_duplicates must be >= 0, got -1"]

----------------------------------------------------------------------------
(* Claims about the PatternsValidator (specification SpecPatterns).        *)

PatternsCalled ==
    /\ validator.kind = "patterns"
    /\ args.op \in {"validate_table", "validate_column"}

PatternTypeOf(rule) == Get(rule.parameters, "pattern_type", "auto_detect")

\* the Result of the k-th enabled rule on the j-th column of the call
ResultAt(j, k) == outcome.results[(j - 1) * Len(EnabledRules) + k]

\* C17: validate_column of the PatternsValidator returns exactly one Result
\* per enabled rule for every column and rule configuration and never
\* raises; a rule with an unsupported pattern_type, or with pattern_type
\* 'regex' and no regex_pattern, yields one Result with passed false and
\* details.error; validate_table returns one Result per (column, enabled
\* rule) pair.
C17_OneResultPerRule ==
    PatternsCalled =>
        /\ ~outcome.raised
        /\ Len(outcome.results) = Len(ColumnsOfCall) * Len(EnabledRules)
        /\ \A j \in 1..Len(ColumnsOfCall), k \in 1..Len(EnabledRules) :
              /\ ResultAt(j, k).rule_name = EnabledRules[k].name
              /\ ResultAt(j, k).column_name = ColumnsOfCall[j]
              /\ ResultAt(j, k).total_rows = Len(data.rows)
              /\ ConfigurationError(validator, EnabledRules[k], args.op) =>
                    /\ ~ResultAt(j, k).passed
                    /\ ResultAt(j, k).affected_rows = 0
                    /\ ResultAt(j, k).details =
                          [error |-> IF PatternTypeOf(EnabledRules[k]) = "regex"
                                     THEN "regex_pattern parameter is required for custom regex validation"
                                     ELSE "Unsupported pattern type: " \o PatternTypeOf(EnabledRules[k])]

\* a table call with a rule of the unsupported pattern_type 'ssn' followed by
\* a cep rule returned, for each of two columns, the failed Result of the
\* first and the evaluated Result of the second
C17_Witness ==
    /\ PatternsCalled
    /\ args.op = "validate_table"
    /\ Len(data.columns) = 2
    /\ Len(data.rows) > 0
    /\ Len(EnabledRules) = 2
    /\ Len(outcome.results) = 4
    /\ PatternTypeOf(EnabledRules[1]) = "ssn"
    /\ outcome.results[3].details = [error |-> "Unsupported pattern type: ssn"]
    /\ "invalid_count" \in DOMAIN outcome.results[4].details

Evaluated(res) == "invalid_count" \in DOMAIN res.details
AllowsNulls(rule) == Get(rule.parameters, "allow_nulls", TRUE)

\* the pattern a Result was evaluated against: the rule's own regex, or the
\* catalogue entry the Result names
ConfigOf(rule, res) ==
    IF res.details.pattern_type = "regex"
    THEN [compiled |-> rule.parameters.regex_pattern.compiled, validator |-> None]
    ELSE Patterns[res.details.pattern_type]

\* the rows of a column that are null or empty, and those whose value does
\* not pass the regex or checksum of the pattern
BlankRows(column_name) ==
    {k \in 1..Len(data.rows) : CellsOf(column_name)[k] \in {NULL, ""}}
MismatchRows(column_name, rule, res) ==
    {k \in 1..Len(data.rows) \ BlankRows(column_name) :
        ~is_valid(ConfigOf(rule, res), Strip(CellsOf(column_name)[k]))}

\* C18 as stated: in a PatternsValidator Result affected_rows equals
\* details.invalid_count, null or empty values are never counted in
\* invalid_count whatever allow_nulls is, and passed holds exactly when
\* invalid_count is 0.
C18_NullsNeverInvalid ==
    (PatternsCalled /\ ~outcome.raised) =>
        \A j \in 1..Len(ColumnsOfCall), k \in 1..Len(EnabledRules) :
            Evaluated(ResultAt(j, k)) =>
                /\ ResultAt(j, k).affected_rows = ResultAt(j, k).details.invalid_count
                /\ ResultAt(j, k).details.invalid_count
                      = Cardinality(MismatchRows(ColumnsOfCall[j], EnabledRules[k], ResultAt(j, k)))
                /\ ResultAt(j, k).passed <=> ResultAt(j, k).details.invalid_count = 0

\* C18, amended: affected_rows equals details.invalid_count, which counts
\* the regex or checksum mismatches and, when allow_nulls is false, the null
\* or empty values as well; passed holds exactly when invalid_count is 0.
C18_InvalidCount ==
    (PatternsCalled /\ ~outcome.raised) =>
        \A j \in 1..Len(ColumnsOfCall), k \in 1..Len(EnabledRules) :
            Evaluated(ResultAt(j, k)) =>
                /\ ResultAt(j, k).affected_rows = ResultAt(j, k).details.invalid_count
                /\ ResultAt(j, k).details.invalid_count
                      = Cardinality(MismatchRows(ColumnsOfCall[j], EnabledRules[k], ResultAt(j, k)))
                        + (IF AllowsNulls(EnabledRules[k]) THEN 0
                           ELSE Cardinality(BlankRows(ColumnsOfCall[j])))
                /\ ResultAt(j, k).passed <=> ResultAt(j, k).details.invalid_count = 0

\* a column holding a null and a value that matches was failed by a rule
\* with allow_nulls false: the null is the one invalid, affected row
C18_Witness ==
    /\ PatternsCalled
    /\ ~outcome.raised
    /\ Len(outcome.results) = 1
    /\ Evaluated(outcome.results[1])
    /\ ~AllowsNulls(EnabledRules[1])
    /\ Len(data.rows) = 2
    /\ BlankRows(ColumnsOfCall[1]) # {}
    /\ MismatchRows(ColumnsOfCall[1], EnabledRules[1], outcome.results[1]) = {}
    /\ outcome.results[1].details.invalid_count = 1
    /\ outcome.results[1].affected_rows = 1
    /\ ~outcome.results[1].passed

\* C19: for every Result computed for an explicit or auto-detected pattern,
\* valid_count + invalid_count = total_rows: each null or empty value is
\* counted as valid when allow_nulls is true, and as invalid (the rule fails
\* and affected_rows includes it) when allow_nulls is false.
C19_EveryValueCounted ==
    (PatternsCalled /\ ~outcome.raised) =>
        \A j \in 1..Len(ColumnsOfCall), k \in 1..Len(EnabledRules) :
            LET res == ResultAt(j, k)
                blank == Cardinality(BlankRows(ColumnsOfCall[j]))
                mismatch == Cardinality(MismatchRows(ColumnsOfCall[j], EnabledRules[k], res))
            IN Evaluated(res) =>
                /\ res.details.valid_count + res.details.invalid_count = res.total_rows
                /\ res.total_rows = Len(data.rows)
                /\ res.details.null_count = blank
                /\ IF AllowsNulls(EnabledRules[k])
                   THEN res.details.valid_count = Len(data.rows) - mismatch
                   ELSE /\ res.details.valid_count = Len(data.rows) - mismatch - blank
                        /\ blank > 0 => (~res.passed /\ res.affected_rows >= blank)

\* a column holding an empty string and a mismatch was evaluated by a rule
\* with allow_nulls true: one valid (the empty string), one invalid
C19_Witness ==
    /\ PatternsCalled
    /\ ~outcome.raised
    /\ Len(outcome.results) = 1
    /\ Evaluated(outcome.results[1])
    /\ AllowsNulls(EnabledRules[1])
    /\ "" \in Range(CellsOf(ColumnsOfCall[1]))
    /\ Cardinality(MismatchRows(ColumnsOfCall[1], EnabledRules[1], outcome.results[1])) = 1
    /\ outcome.results[1].details.valid_count = 1
    /\ outcome.results[1].details.invalid_count = 1
    /\ outcome.results[1].total_rows = 2

\* the pattern C20 states for a column name: the first match on the
\* lowercased name
DetectedFor(column_name) ==
    LET Has(word) == Contains(word, Lower(column_name)) IN
    CASE Has("cnpj") -> "cnpj"
      [] Has("cpf") -> "cpf"
      [] Has("email") \/ Has("mail") -> "email"
      [] Has("phone") \/ Has("telefone") \/ Has("fone") -> "phone_br"
      [] Has("cep") -> "cep"
      [] OTHER -> "none"

\* C20: with pattern_type 'auto_detect' (the default) the pattern is chosen
\* from the lowercased column name by the first match among cnpj; cpf; email
\* or mail -> email; phone, telefone or fone -> phone_br; cep.  When nothing
\* matches, the rule yields exactly one Result with passed true,
\* affected_rows 0 and details.pattern_type 'none', whatever the column holds.
C20_AutoDetect ==
    (PatternsCalled /\ ~outcome.raised) =>
        /\ Len(outcome.results) = Len(ColumnsOfCall) * Len(EnabledRules)
        /\ \A j \in 1..Len(ColumnsOfCall), k \in 1..Len(EnabledRules) :
              PatternTypeOf(EnabledRules[k]) = "auto_detect" =>
                  /\ ResultAt(j, k).column_name = ColumnsOfCall[j]
                  /\ ResultAt(j, k).details.pattern_type = DetectedFor(ColumnsOfCall[j])
                  /\ Evaluated(ResultAt(j, k)) <=> DetectedFor(ColumnsOfCall[j]) # "none"
                  /\ DetectedFor(ColumnsOfCall[j]) = "none" =>
                        /\ ResultAt(j, k).passed
                        /\ ResultAt(j, k).affected_rows = 0

\* the column CPF_CNPJ, whose name holds both cpf and cnpj, was detected as
\* cnpj and its value, a valid CNPJ that is no CPF, passed
C20_Witness ==
    /\ PatternsCalled
    /\ ~outcome.raised
    /\ ColumnsOfCall = <<"CPF_CNPJ">>
    /\ Len(EnabledRules) = 1
    /\ PatternTypeOf(EnabledRules[1]) = "auto_detect"
    /\ CellsOf("CPF_CNPJ") = <<"11.222.333/0001-81">>
    /\ Len(outcome.results) = 1
    /\ outcome.results[1].details.pattern_type = "cnpj"
    /\ outcome.results[1].passed

----------------------------------------------------------------------------
(* Claims about the checksum validators (specification SpecChecksums),     *)
(* stated on the digits the text was written from.                         *)

RECURSIVE WeightedDigitSum(_, _, _)
WeightedDigitSum(digits, weights, i) ==
    IF i > Len(weights) THEN 0
    ELSE digits[i] * weights[i] + WeightedDigitSum(digits, weights, i + 1)

\* d = 0 if r < 2 else 11 - r, with r = (weighted digit sum) mod 11
CheckDigit(digits, weights) ==
    LET r == WeightedDigitSum(digits, weights, 1) % 11 IN IF r < 2 THEN 0 ELSE 11 - r

\* exactly n digits, not all identical, the last two being the check digits
\* of the digits before them
WellFormed(digits, n, weights1, weights2) ==
    /\ Len(digits) = n
    /\ \E i \in 1..n : digits[i] # digits[1]
    /\ digits[n - 1] = CheckDigit(digits, weights1)
    /\ digits[n] = CheckDigit(digits, weights2)

\* C21: the CNPJ check accepts a string exactly when its digits, every other
\* character removed, are 14, not all identical, and the 13th and 14th are
\* the check digits d = 0 if r < 2 else 11 - r, r the weighted sum mod 11
\* with weights 5,4,3,2,9,8,7,6,5,4,3,2 over the first 12 digits and
\* 6,5,4,3,2,9,8,7,6,5,4,3,2 over the first 13; a masked number and its
\* digits-only form get the same verdict; 11.444.777/0001-61 is valid and
\* 00.000.000/0000-00 is not.
C21_Cnpj ==
    args.op = "_validate_cnpj" =>
        /\ outcome.results[1] <=>
              WellFormed(data.digits, 14, <<5, 4, 3, 2, 9, 8, 7, 6, 5, 4, 3, 2>>,
                         <<6, 5, 4, 3, 2, 9, 8, 7, 6, 5, 4, 3, 2>>)
        /\ data.text = "11.444.777/0001-61" => outcome.results[1]
        /\ data.text = "00.000.000/0000-00" => ~outcome.results[1]

\* the masked CNPJ 00.000.002/0001-80, whose second check digit comes from a
\* remainder below 2, was accepted
C21_Witness ==
    /\ args.op = "_validate_cnpj"
    /\ data.text = "00.000.002/0001-80"
    /\ outcome = Return(<<TRUE>>)

\* C22: the CPF check accepts a string exactly when its digits, every other
\* character removed, are 11, not all identical, and the 10th and 11th are
\* the check digits d = 0 if r < 2 else 11 - r, r the weighted sum mod 11
\* with weights 10..2 over the first 9 digits and 11..2 over the first 10; a
\* masked number and its digits-only form get the same verdict;
\* 123.456.789-09 is valid and 111.111.111-11 is not.
C22_Cpf ==
    args.op = "_validate_cpf" =>
        /\ outcome.results[1] <=>
              WellFormed(data.digits, 11, <<10, 9, 8, 7, 6, 5, 4, 3, 2>>,
                         <<11, 10, 9, 8, 7, 6, 5, 4, 3, 2>>)
        /\ data.text = "123.456.789-09" => outcome.results[1]
        /\ data.text = "111.111.111-11" => ~outcome.results[1]

\* the CPF 111.111.111-11, whose check digits are right but whose digits are
\* all identical, was rejected
C22_Witness ==
    /\ args.op = "_validate_cpf"
    /\ data.text = "111.111.111-11"
    /\ data.digits[10] = CheckDigit(data.digits, <<10, 9, 8, 7, 6, 5, 4, 3, 2>>)
    /\ data.digits[11] = CheckDigit(data.digits, <<11, 10, 9, 8, 7, 6, 5, 4, 3, 2>>)
    /\ outcome = Return(<<FALSE>>)

----------------------------------------------------------------------------
(* Further claims about the PatternsValidator (specification SpecPatterns). *)

Checksum(pattern_type, str_value) ==
    IF pattern_type = "cnpj" THEN validate_cnpj(str_value) ELSE validate_cpf(str_value)

\* the non-blank rows of a column whose trimmed value satisfies Accepts
RowsWhere(column_name, Accepts(_)) ==
    {k \in 1..Len(data.rows) \ BlankRows(column_name) : Accepts(Strip(CellsOf(column_name)[k]))}

\* the valid_count of a Result given the non-blank rows counted as valid
CountsAsValid(res, rule, column_name, rows) ==
    res.details.valid_count
        = Cardinality(rows) + (IF AllowsNulls(rule) THEN Cardinality(BlankRows(column_name)) ELSE 0)

\* C23 as stated: for the cnpj and cpf patterns a non-null value is counted
\* as valid only if it both matches the catalogue's regex and passes the
\* checksum validator; one that passes the checksum after digit extraction
\* but does not match the regex is counted as invalid.
C23_RegexAndChecksum ==
    (PatternsCalled /\ ~outcome.raised) =>
        \A j \in 1..Len(ColumnsOfCall), k \in 1..Len(EnabledRules) :
            LET res == ResultAt(j, k) IN
            (Evaluated(res) /\ res.details.pattern_type \in {"cnpj", "cpf"}) =>
                CountsAsValid(res, EnabledRules[k], ColumnsOfCall[j],
                    RowsWhere(ColumnsOfCall[j],
                        LAMBDA v : /\ re_match(Patterns[res.details.pattern_type].compiled, v)
                                   /\ Checksum(res.details.pattern_type, v)))

\* C23, amended: for the cnpj and cpf patterns the regex is not consulted: a
\* non-null value is counted as valid exactly when its trimmed text passes
\* the checksum validator after digit extraction, whether it matches the
\* catalogue's regex or not.
C23_ChecksumOnly ==
    (PatternsCalled /\ ~outcome.raised) =>
        \A j \in 1..Len(ColumnsOfCall), k \in 1..Len(EnabledRules) :
            LET res == ResultAt(j, k) IN
            (Evaluated(res) /\ res.details.pattern_type \in {"cnpj", "cpf"}) =>
                CountsAsValid(res, EnabledRules[k], ColumnsOfCall[j],
                    RowsWhere(ColumnsOfCall[j], LAMBDA v : Checksum(res.details.pattern_type, v)))

\* the value x11144477735, which does not match the cpf regex and whose
\* digits have the right check digits, was counted as valid by a cpf rule
C23_Witness ==
    /\ PatternsCalled
    /\ ~outcome.raised
    /\ Len(outcome.results) = 1
    /\ Evaluated(outcome.results[1])
    /\ outcome.results[1].details.pattern_type = "cpf"
    /\ CellsOf(ColumnsOfCall[1]) = <<"x11144477735">>
    /\ ~re_match(Patterns.cpf.compiled, "x11144477735")
    /\ outcome.results[1].details.valid_count = 1
    /\ outcome.results[1].passed


\* C24 as stated: details.invalid_values of a PatternsValidator Result never
\* has more than 10 entries, for any column content and either allow_nulls
\* setting.
C24_AtMostTen ==
    (PatternsCalled /\ ~outcome.raised) =>
        \A i \in 1..Len(outcome.results) :
            Evaluated(outcome.results[i]) => Len(outcome.results[i].details.invalid_values) <= 10

\* C24, the behaviour of the code: a value that fails the pattern is added to
\* details.invalid_values only while the list holds fewer than 10 entries, so
\* with allow_nulls true the list has min(10, mismatches) entries; with
\* allow_nulls false every null or empty value is added as well, without a
\* limit, so the list holds every such value and may exceed 10 entries.
C24_SampleOfMismatches ==
    (PatternsCalled /\ ~outcome.raised) =>
        \A j \in 1..Len(ColumnsOfCall), k \in 1..Len(EnabledRules) :
            LET res == ResultAt(j, k)
                blank == Cardinality(BlankRows(ColumnsOfCall[j]))
                mismatch == Cardinality(MismatchRows(ColumnsOfCall[j], EnabledRules[k], res))
                sampled == Len(res.details.invalid_values)
            IN Evaluated(res) =>
                 IF AllowsNulls(EnabledRules[k])
                 THEN sampled = Smaller(10, mismatch)
                 ELSE /\ sampled >= blank
                      /\ sampled <= blank + Smaller(10, mismatch)
                      /\ blank = 0 => sampled = Smaller(10, mismatch)

\* a column of eleven nulls followed by eleven mismatches under a rule with
\* allow_nulls false: the eleven nulls are all listed, none of the mismatches
C24_Witness ==
    /\ PatternsCalled
    /\ ~outcome.raised
    /\ Len(outcome.results) = 1
    /\ Evaluated(outcome.results[1])
    /\ ~AllowsNulls(EnabledRules[1])
    /\ Len(data.rows) = 22
    /\ outcome.results[1].details.invalid_count = 22
    /\ outcome.results[1].details.invalid_values = [i \in 1..11 |-> "None"]

----------------------------------------------------------------------------
(* Further claims about the IntegrityValidator.                            *)

\* the rows of the data whose foreign key has no null component
NonNullKeys(rule) ==
    {CleanValue(AsList(rule.parameters.foreign_key), KeyOf(rule, i)) :
        i \in (1..Len(data.rows)) \ NullRows(rule)}

\* C25: details.orphaned_values of an IntegrityValidator Result contains
\* min(10, orphaned_records) entries, each of them a foreign-key value of the
\* data that is orphaned and never a value recorded as a null violation; in
\* particular it is non-empty whenever orphaned_records > 0.
C25_OrphanedSample ==
    TableCallOnRules =>
       \A k \in 1..Len(outcome.results) :
          LET r == outcome.results[k] IN
          IsEvaluated(r) =>
             /\ Len(r.details.orphaned_values) = Smaller(10, r.details.orphaned_records)
             /\ \A j \in 1..Len(r.details.orphaned_values) :
                   r.details.orphaned_values[j] \in NonNullKeys(EnabledRules[k])
             /\ r.details.orphaned_records > 0 => r.details.orphaned_values # <<>>

\* C25, the behaviour of the code: the sample is taken from the first 10
\* invalid references, null violations included, so it holds at most
\* min(10, orphaned_records) entries, exactly that many when the Result has no
\* null violation, and none when 10 null violations precede the first orphan.
C25_SampleOfFirstTen ==
    TableCallOnRules =>
       \A k \in 1..Len(outcome.results) :
          LET r == outcome.results[k] IN
          IsEvaluated(r) =>
             /\ Len(r.details.orphaned_values) <= Smaller(10, r.details.orphaned_records)
             /\ Len(r.details.orphaned_values) + r.details.null_violations
                   >= Smaller(10, r.details.invalid_references)
             /\ \A j \in 1..Len(r.details.orphaned_values) :
                   r.details.orphaned_values[j] \in NonNullKeys(EnabledRules[k])

\* eleven null violations followed by an orphaned record: no sample
C25_Witness ==
    /\ TableCallOnRules
    /\ Len(outcome.results) = 1
    /\ IsEvaluated(outcome.results[1])
    /\ outcome.results[1].details.null_violations = 11
    /\ outcome.results[1].details.orphaned_records = 1
    /\ outcome.results[1].details.orphaned_values = <<>>

\* validate_table was called with no rules: an empty list, or None on a
\* validator without registered rules
CalledWithoutRules ==
    /\ validator.kind = "integrity"
    /\ args.op = "validate_table"
    /\ ExplicitRules = <<>>

\* the rows the metadata query of the validator's connector returns
ConstraintRows ==
    IF table_name \in DOMAIN validator.connector.foreign_keys
    THEN validator.connector.foreign_keys[table_name] ELSE <<>>

\* C26: validate_table with no rules on a validator with a connector
\* evaluates one rule auto_fk_<constraint> of severity ERROR per constraint
\* the metadata query returns, in the order returned; when the query fails it
\* returns an empty list and raises nothing; with no rules and no connector
\* it returns an empty list.
C26_AutoDiscovery ==
    CalledWithoutRules =>
       /\ ~outcome.raised
       /\ IF ~validator.connector.present \/ validator.connector.schema_fails
          THEN outcome.results = <<>>
          ELSE /\ Len(outcome.results) = Len(ConstraintRows)
               /\ \A k \in 1..Len(ConstraintRows) :
                     /\ outcome.results[k].rule_name = "auto_fk_" \o ConstraintRows[k].CONSTRAINT_NAME
                     /\ outcome.results[k].severity = "ERROR"
                     /\ outcome.results[k].table_name = table_name
                     /\ IsEvaluated(outcome.results[k]) \/ "error" \in DOMAIN outcome.results[k].details

\* two constraints discovered: the first cannot be evaluated (its column is
\* not in the data), the second is evaluated against the connector's table
C26_Witness ==
    /\ CalledWithoutRules
    /\ validator.connector.present
    /\ Len(ConstraintRows) = 2
    /\ Len(outcome.results) = 2
    /\ outcome.results[1].rule_name = "auto_fk_fk_owner"
    /\ "error" \in DOMAIN outcome.results[1].details
    /\ outcome.results[2].rule_name = "auto_fk_fk_self"
    /\ IsEvaluated(outcome.results[2])

----------------------------------------------------------------------------
(* Claims about the DataQualityOrchestrator (specification                 *)
(* SpecOrchestrator).                                                      *)

RegisteredNames == {engine[i].key : i \in 1..Len(engine)}

\* C27: after a DataQualityOrchestrator is constructed, its engine has
\* exactly three validators registered, named completeness, duplicates and
\* patterns; the IntegrityValidator is not registered at construction.
C27_ThreeValidators ==
    /\ Len(engine) = 3
    /\ RegisteredNames = {"completeness", "duplicates", "patterns"}
    /\ "integrity" \notin RegisteredNames

\* C27, the behaviour of the code: four validators are registered, the
\* IntegrityValidator (without a connector) third.
C27_FourValidators ==
    /\ [i \in 1..Len(engine) |-> engine[i].key] = <<"completeness", "duplicates", "integrity", "patterns">>
    /\ engine[3].value = IntegrityValidator(NoConnector, <<>>)

\* analyze_table has returned and connect() was called on the connector the
\* orchestrator holds
ConnectCalled ==
    /\ args.op = "analyze_table"
    /\ orchestrator.connector.present
    /\ "connect" \in Range(orchestrator.connector.calls)

\* C28: every connector on which connect() was called is disconnected
\* before analyze_table returns, on every path: success, an error while
\* counting, loading or validating, or a failed connection test.
C28_AlwaysDisconnected ==
    ConnectCalled =>
        orchestrator.connector.calls[Len(orchestrator.connector.calls)] = "disconnect"

\* C28, the behaviour of the code: the connector is disconnected exactly
\* when _connect_database returned True, that is on the paths through the
\* try block; it is left connected when connect() raises or the connection
\* test fails.
C28_DisconnectedAfterTry ==
    ConnectCalled =>
        (orchestrator.connector.calls[Len(orchestrator.connector.calls)] = "disconnect"
            <=> outcome.error # "Database connection failed")

\* the connection test answered False: connect and test_connection were
\* called, disconnect was not
C28_Witness ==
    /\ ConnectCalled
    /\ orchestrator.db_config.fails = ""
    /\ ~orchestrator.db_config.test_connection
    /\ orchestrator.connector.calls = <<"connect", "test_connection">>
    /\ outcome.error = "Database connection failed"

----------------------------------------------------------------------------
(* Claims about what the calls leave unchanged (specification              *)
(* SpecConfigured).                                                        *)

----------------------------------------------------------------------------
(* A claim about every Result.                                             *)

\* pass_rate as a number between 0 and 100: 0 <= num / den <= 100
InPercentRange(rate) == rate.den > 0 /\ 0 <= rate.num /\ rate.num <= 100 * rate.den

====
